---- MODULE Spec2Model ----
(***************************************************************************)
(* Risk allocation and position-lifecycle engine of the Alnafie follower   *)
(* (accountB_copy_risk_engine.py) and its event/manager wiring             *)
(* (follower_executor.py).                                                 *)
(*                                                                         *)
(* Units.  The source computes in floating point; the model computes the   *)
(* same expressions in exact integer arithmetic:                           *)
(*   - prices and distances are in points (info.point = 1);                *)
(*   - volumes are in lot units of 0.01 lot (MIN_LOT = LOT_STEP = 1 and    *)
(*     MAX_LOT = 500 are the defaults 0.01 / 0.01 / 5.0);                  *)
(*   - money is in cents; value_per_point is cents per point per lot unit, *)
(*     which is the same number as USD per point per 1.0 lot;              *)
(*   - fractions are carried as numerator/denominator, the regime          *)
(*     multiplier in tenths.                                               *)
(***************************************************************************)
EXTENDS Integers, Sequences, FiniteSets, TLC

VARIABLES
    cfg,            \* module-level configuration read from the environment
    info,           \* venue: symbol facts (symbol_info, order_calc_*)
    acct,           \* venue: account_info() (equity, margin_free)
    mkt,            \* venue: quotes and bars (symbol_info_tick, ATR of the bars)
    positions,      \* venue: positions_get(), in ticket order
    day_state,      \* engine global day_state (NoDay or a DayState)
    now_cest,       \* the clock: date key, hour and minute in CEST
    inbox,          \* decoded events waiting on the watcher connection
    ev,             \* event thread: position in on_open and its locals
    MASTER2FOLLOW,  \* follower_executor.MASTER2FOLLOW
    ticked,         \* history: the last step was a management tick
    log,            \* history: outcome of every OPEN handled so far
    hist,           \* history: what the lifecycle manager did, per ticket
    roll,           \* daily_reset_if_needed: each thread's position in it, and
                    \* history of the calls made on the latest date
    venue,          \* venue: which of its calls answer (account_info,
                    \* symbol_info_tick) and whether it accepts stop changes
    alive,          \* which of the threads t1 (tcp_server) and t2
                    \* (manager_loop) are still running
    rms,            \* reverse_mirror_simple.main: its set seen, and history of
                    \* the replacement attempts and of the requests it sent
    mirror,         \* one_day_sim_no_offset: _HARD_STOP_ON, _LAST_DAY, the two
                    \* start equities, the set seen of main, whether the panic
                    \* file says KILL, and history: the requests of its last
                    \* step (none when the user or the market moved last)
    copier          \* trade_copier.TradeCopier: self.state, and history of the
                    \* slave positions opened per master ticket

vars == <<cfg, info, acct, mkt, positions, day_state, now_cest, inbox, ev,
          MASTER2FOLLOW, ticked, log, hist, roll, venue, alive, rms, mirror,
          copier>>

\* ------------------------------------------------------------------ bounds

\* how many of the last stops applied to a position hist remembers
MaxTrace == 3

\* how many bars of the managed timeframe the venue gets to hold
MaxBars == 16

\* how many iterations of the shrink loop of prepare_copy_trade are followed
MaxShrinkIters == 6

\* tickets the venue hands out
MaxTickets == 3

\* the replacement and mirror programs: how many manual positions are open at
\* a time, and the last ticket the venue issues
MaxManual == 2

MaxVenueTicket == 7

\* the mirror bot: the last date it runs on
MaxDate == 2

\* ------------------------------------------------------------------ helpers

\* day_state before the first daily_reset_if_needed (None in the source)
NoDay == [date_key |-> 0, start_equity |-> 0]

\* no event in hand
NoMsg == [event |-> "NONE", ticket |-> 0, symbol |-> "", type |-> "", entry |-> 0,
          sl |-> 0, tp |-> 0]

\* a venue whose calls all answer and which accepts stop changes
Healthy == [account |-> TRUE, tick |-> TRUE, sltp |-> TRUE]

\* both threads of __main__ running
AllAlive == [t \in {"t1", "t2"} |-> TRUE]

\* the other programs of the repository, not started
NoRms == [seen |-> {}, attempts |-> <<>>, sent |-> <<>>]

NoMirror ==
    [hard_stop |-> FALSE, last_day |-> 0, today_start |-> 0, session_start |-> 0,
     panic |-> FALSE, seen |-> {}, sent |-> <<>>]

NoCopier == [state |-> <<>>, opened |-> <<>>]

Max(a, b) == IF a >= b THEN a ELSE b

Min(a, b) == IF a <= b THEN a ELSE b

Abs(a) == IF a >= 0 THEN a ELSE -a

\* ------------------------------------------------------------------ config

INITIAL_BALANCE == 1000000

DAILY_LOSS_LIMIT == cfg.DAILY_LOSS_LIMIT

\* DAILY_LOSS_PCT in basis points of start-of-day equity
DAILY_LOSS_PCT == cfg.DAILY_LOSS_PCT

OVERALL_EQUITY_FLOOR == 900000

\* BASE_RISK_PCT per mille
BASE_RISK_PCT == 8

\* the three fractions, in percent
MDL_FRACTION_PER_TRADE == 20

OVR_FRACTION_PER_TRADE == 20

OPEN_RISK_FRACTION_OF_DAILY == 50

MARGIN_FREE_BUFFER_PCT == 25

MAX_LOT == 500

MIN_LOT == cfg.MIN_LOT

LOT_STEP == cfg.LOT_STEP

ALNAFIE_MODE == cfg.ALNAFIE_MODE

SYMBOL_ALLOW == {"XAUUSD"}

COMMENT_MARK == "B_COPY_RISK"

COPY_MODE == "REVERSE"

SESSION_FILTER_ON == cfg.SESSION_FILTER_ON

\* _KZ_DEFAULT, each window as <<start hour, start minute, end hour, end minute>>
KILLZONES_CEST == {<<12, 0, 14, 0>>, <<13, 0, 15, 0>>, <<8, 0, 11, 0>>, <<16, 0, 18, 0>>}

\* TRAIL_ATR_MULT = 1.5, as a ratio
TRAIL_ATR_MULT_NUM == 3

TRAIL_ATR_MULT_DEN == 2

\* ------------------------------------------------------------------ venue reads

get_equity == acct.equity

value_per_point == info.vpp

\* ATR_PERIOD, the period trail_atr and synthetic_sl_points pass
ATR_PERIOD == 14

\* get_atr_points without the test on the number of bars
get_atr_points_of_any_bars == mkt.atr_pts

\* get_atr_points: 0 when fewer than period+1 bars are available, else the
\* mean true range of the last period bars in points (mkt.atr_pts); mkt.bars is
\* len(rates)
get_atr_points == IF mkt.bars < ATR_PERIOD + 1 THEN 0 ELSE mkt.atr_pts

\* round(x, info.digits) of a price given in half points: Python rounds a tie
\* to the even neighbour
round_half(x2) ==
    IF x2 % 2 = 0 THEN x2 \div 2
    ELSE LET lo == (x2 - 1) \div 2
         IN  IF lo % 2 = 0 THEN lo ELSE lo + 1

\* ------------------------------------------------------------------ sizing

\* round_lot rounding to the nearest step instead of down
round_lot_to_nearest(n, d) ==
    LET steps == (2 * n + d * LOT_STEP) \div (2 * d * LOT_STEP)
        vol   == steps * LOT_STEP
    IN  Max(MIN_LOT, Min(MAX_LOT, vol))

\* round_lot(volume), volume = n/d lot units
round_lot(n, d) ==
    LET steps == n \div (d * LOT_STEP)
        vol   == steps * LOT_STEP
    IN  Max(MIN_LOT, Min(MAX_LOT, vol))

\* daily_reset_if_needed taking a new snapshot on every call
daily_reset_every_call ==
    [date_key |-> now_cest.date_key, start_equity |-> get_equity]

daily_reset_if_needed ==
    IF day_state = NoDay \/ day_state.date_key # now_cest.date_key
    THEN [date_key |-> now_cest.date_key, start_equity |-> get_equity]
    ELSE day_state

\* remaining_daily_loss with the equity change since the start of the day
\* taken with its sign
remaining_daily_loss_signed_use(ds) ==
    LET percent_budget == IF DAILY_LOSS_PCT > 0
                          THEN (ds.start_equity * DAILY_LOSS_PCT) \div 10000
                          ELSE -1
        budget == IF percent_budget = -1 THEN DAILY_LOSS_LIMIT
                  ELSE Min(DAILY_LOSS_LIMIT, percent_budget)
    IN  Max(0, budget - (ds.start_equity - get_equity))

\* remaining_daily_loss with the loss measured from INITIAL_BALANCE
remaining_daily_loss_from_balance(ds) ==
    LET percent_budget == IF DAILY_LOSS_PCT > 0
                          THEN (ds.start_equity * DAILY_LOSS_PCT) \div 10000
                          ELSE -1
        budget == IF percent_budget = -1 THEN DAILY_LOSS_LIMIT
                  ELSE Min(DAILY_LOSS_LIMIT, percent_budget)
    IN  Max(0, budget - Max(0, INITIAL_BALANCE - get_equity))

\* remaining_daily_loss with day_state = ds; -1 stands for float("inf")
remaining_daily_loss(ds) ==
    LET percent_budget == IF DAILY_LOSS_PCT > 0
                          THEN (ds.start_equity * DAILY_LOSS_PCT) \div 10000
                          ELSE -1
        abs_budget == DAILY_LOSS_LIMIT
        budget == IF percent_budget = -1 THEN abs_budget
                  ELSE Min(abs_budget, percent_budget)
        used == Max(0, ds.start_equity - get_equity)
    IN  Max(0, budget - used)

\* in_session_window with the killzones ignored
session_always_open == TRUE

in_session_window ==
    \/ ~SESSION_FILTER_ON
    \/ \E kz \in KILLZONES_CEST :
          LET t == now_cest.hour * 60 + now_cest.minute
          IN  kz[1] * 60 + kz[2] <= t /\ t <= kz[3] * 60 + kz[4]

remaining_overall_loss == Max(0, get_equity - OVERALL_EQUITY_FLOOR)

\* compute_allowed_risk_usd without the overall term
compute_allowed_risk_usd_without_overall(ds) ==
    LET rem_daily == remaining_daily_loss(ds)
        base    == (BASE_RISK_PCT * INITIAL_BALANCE) \div 1000
        cap_mdl == (MDL_FRACTION_PER_TRADE * rem_daily) \div 100
    IN  Max(0, Min(base, cap_mdl))

compute_allowed_risk_usd(ds) ==
    LET rem_daily   == remaining_daily_loss(ds)
        rem_overall == remaining_overall_loss
        base    == (BASE_RISK_PCT * INITIAL_BALANCE) \div 1000
        cap_mdl == (MDL_FRACTION_PER_TRADE * rem_daily) \div 100
        cap_ovr == (OVR_FRACTION_PER_TRADE * rem_overall) \div 100
    IN  Max(0, Min(base, Min(cap_mdl, cap_ovr)))

\* _adapt_multiplier without the final clamp
_adapt_multiplier_unclamped ==
    IF ALNAFIE_MODE # "ADAPT" THEN 10
    ELSE LET base  == cfg.ADAPT_RISK_MULT_DEFAULT
             asian == IF cfg.ADAPT_RISK_MULT_ASIAN = <<>> THEN base
                      ELSE cfg.ADAPT_RISK_MULT_ASIAN[1]
             mult1 == IF SESSION_FILTER_ON /\ 3 <= now_cest.hour /\ now_cest.hour < 7
                      THEN Min(base, asian) ELSE base
             nfp   == IF cfg.ADAPT_RISK_MULT_NFP = <<>> THEN mult1
                      ELSE cfg.ADAPT_RISK_MULT_NFP[1]
         IN  Min(mult1, nfp)

\* _adapt_multiplier in tenths.  ADAPT_RISK_MULT_ASIAN and ADAPT_RISK_MULT_NFP
\* are <<>> when unset and <<v>> when set to v; unset, each defaults to the
\* running value
_adapt_multiplier ==
    IF ALNAFIE_MODE # "ADAPT" THEN 10
    ELSE LET base  == cfg.ADAPT_RISK_MULT_DEFAULT
             asian == IF cfg.ADAPT_RISK_MULT_ASIAN = <<>> THEN base
                      ELSE cfg.ADAPT_RISK_MULT_ASIAN[1]
             mult1 == IF SESSION_FILTER_ON /\ 3 <= now_cest.hour /\ now_cest.hour < 7
                      THEN Min(base, asian) ELSE base
             nfp   == IF cfg.ADAPT_RISK_MULT_NFP = <<>> THEN mult1
                      ELSE cfg.ADAPT_RISK_MULT_NFP[1]
             mult  == Min(mult1, nfp)
         IN  Max(1, Min(mult, 20))

synthetic_sl_points ==
    LET min_stop_pts == info.trade_stops_level
        syn_pts == Max((TRAIL_ATR_MULT_NUM * get_atr_points) \div TRAIL_ATR_MULT_DEN,
                       min_stop_pts)
    IN  Max(syn_pts, min_stop_pts)

\* lots_for_risk sending a stop distance of 0 through round_lot
lots_for_risk_without_distance_test(risk_n, risk_d, sl_points) ==
    IF risk_n <= 0 THEN 0
    ELSE IF value_per_point <= 0 THEN 0
    ELSE IF sl_points <= 0 THEN round_lot(0, 1)
    ELSE round_lot(risk_n, risk_d * sl_points * value_per_point)

\* lots_for_risk(symbol, risk_usd, sl_points), risk_usd = risk_n/risk_d cents
lots_for_risk(risk_n, risk_d, sl_points) ==
    IF sl_points <= 0 \/ risk_n <= 0 THEN 0
    ELSE IF value_per_point <= 0 THEN 0
    ELSE round_lot(risk_n, risk_d * sl_points * value_per_point)

\* open_risk_of counting only positions whose comment is exactly the engine's
\* mark, the comparison manage_positions_loop makes
open_risk_of_marked_only(pos) ==
    LET sl_pts == IF pos.sl <= 0 THEN synthetic_sl_points
                  ELSE Abs(pos.price_open - pos.sl)
    IN  IF pos.comment = <<"B_COPY_RISK">>
        THEN Abs(pos.volume) * sl_pts * value_per_point
        ELSE 0

\* the term one position adds in sum_open_risk_usd
open_risk_of(pos) ==
    LET sl_pts == IF pos.sl <= 0 THEN synthetic_sl_points
                  ELSE Abs(pos.price_open - pos.sl)
    IN  Abs(pos.volume) * sl_pts * value_per_point

RECURSIVE sum_risk(_)
sum_risk(ps) ==
    IF ps = <<>> THEN 0 ELSE open_risk_of(Head(ps)) + sum_risk(Tail(ps))

sum_open_risk_usd == sum_risk(positions)

\* can_add_more_risk with the whole remaining daily budget as the limit
can_add_more_risk_whole_budget(ds, additional_risk) ==
    LET rem_daily == remaining_daily_loss(ds)
    IN  /\ rem_daily > 0
        /\ (sum_open_risk_usd + additional_risk) <= rem_daily

can_add_more_risk(ds, additional_risk) ==
    LET rem_daily == remaining_daily_loss(ds)
    IN  /\ rem_daily > 0
        /\ (sum_open_risk_usd + additional_risk) * 100
               <= OPEN_RISK_FRACTION_OF_DAILY * rem_daily

\* max_lots_by_margin(symbol, order_type, price, keep_free_frac), in lot units
max_lots_by_margin ==
    LET free   == acct.margin_free
        equity == acct.equity
        keep   == (Max(0, Min(95, MARGIN_FREE_BUFFER_PCT)) * equity) \div 100
        avail  == Max(0, free - keep)
        m1     == info.margin_per_lot
    IN  IF avail <= 0 THEN MIN_LOT
        ELSE IF m1 <= 0 THEN MAX_LOT
        ELSE LET steps == (avail * 100) \div (m1 * LOT_STEP)
             IN  Max(MIN_LOT, Min(MAX_LOT, steps * LOT_STEP))

\* ------------------------------------------------------------------ post-fill management

\* rr_for_position as the ratio <<r_pts, sl_pts>>; <<0, 1>> is the 0.0 returned
\* when the stop distance is not positive
rr_for_position(pos) ==
    LET sl_pts == IF pos.sl = 0 THEN synthetic_sl_points
                  ELSE Abs(pos.price_open - pos.sl)
        cur    == IF pos.type = "BUY" THEN mkt.bid ELSE mkt.ask
        r_pts  == IF pos.type = "BUY" THEN cur - pos.price_open
                  ELSE pos.price_open - cur
    IN  IF sl_pts <= 0 THEN <<0, 1>> ELSE <<r_pts, sl_pts>>

\* the stop move_to_be_plus sends
move_to_be_plus(pos) ==
    LET spread == Abs(mkt.ask - mkt.bid)
    IN  IF pos.type = "BUY" THEN Min(pos.price_open + spread, mkt.bid)
        ELSE Max(pos.price_open - spread, mkt.ask)

\* the volume partial_close(pos, 0.5) sends a closing deal for; 0: no order
partial_close(pos) ==
    LET vol == Max(MIN_LOT, round_lot(pos.volume, 2))
    IN  IF vol <= 0 \/ vol >= pos.volume THEN 0 ELSE vol

\* trail_atr: whether a stop modification is sent, and the stop it carries
trail_atr(pos) ==
    LET last    == IF pos.type = "BUY" THEN mkt.bid ELSE mkt.ask
        atr_pts == get_atr_points
        \* offset = atr_pts * trail_mult * point, kept in half points
        offset2 == atr_pts * TRAIL_ATR_MULT_NUM
        new_sl2 == IF pos.type = "BUY" THEN 2 * last - offset2
                   ELSE 2 * last + offset2
    IN  IF atr_pts <= 0 THEN [sent |-> FALSE, sl |-> 0]
        ELSE IF /\ pos.sl # 0
                /\ \/ (pos.type = "BUY" /\ new_sl2 <= 2 * pos.sl)
                   \/ (pos.type = "SELL" /\ new_sl2 >= 2 * pos.sl)
             THEN [sent |-> FALSE, sl |-> 0]
        ELSE [sent |-> TRUE, sl |-> round_half(new_sl2)]

\* the guard of the breakeven/partial branch of manage_positions_loop
be_branch(pos) ==
    LET rr == rr_for_position(pos)
    IN  rr[1] >= rr[2] /\ pos.sl # 0 /\ pos.volume > MIN_LOT

\* manage_positions_loop without its comment test
is_managed_always(pos) == TRUE

\* whether manage_positions_loop evaluates the position at all
is_managed(pos) == pos.comment = <<"B_COPY_RISK">>

\* one iteration of the loop of manage_positions_loop on the snapshot pos:
\* the orders it sends, in order
manage_one(pos) ==
    IF ~is_managed(pos)
    THEN [evaluated |-> FALSE, be |-> FALSE, be_sl |-> 0, pc_vol |-> 0,
          tr |-> [sent |-> FALSE, sl |-> 0]]
    ELSE [evaluated |-> TRUE,
          be     |-> be_branch(pos),
          be_sl  |-> IF be_branch(pos) THEN move_to_be_plus(pos) ELSE 0,
          pc_vol |-> IF be_branch(pos) THEN partial_close(pos) ELSE 0,
          tr     |-> trail_atr(pos)]

\* the venue's position after the orders of manage_one(pos) were executed; a
\* venue that rejects stop changes leaves the stop as it is, and nothing in
\* manage_positions_loop reads the answer of order_send
after_orders(pos, o) ==
    [pos EXCEPT !.sl = IF ~venue.sltp THEN @
                       ELSE IF o.tr.sent THEN o.tr.sl
                       ELSE IF o.be THEN o.be_sl ELSE @,
                !.volume = @ - o.pc_vol]

\* the stops applied to the position by the orders o, in order
stops_of(o) ==
    IF ~venue.sltp THEN <<>>
    ELSE (IF o.be THEN <<o.be_sl>> ELSE <<>>)
             \o (IF o.tr.sent THEN <<o.tr.sl>> ELSE <<>>)

LastN(s, n) == IF Len(s) <= n THEN s ELSE SubSeq(s, Len(s) - n + 1, Len(s))

NoHist ==
    [stops |-> <<>>, partials |-> 0, last_partial |-> <<0, 0>>, armed |-> FALSE,
     seen |-> FALSE, evaluated |-> FALSE, rerun_moved |-> FALSE, used |-> FALSE]

\* hist after a management tick ran on the snapshot positions; repeat says the
\* tick before it ran on the same market and account data
hist_after_tick(repeat) ==
    [t \in DOMAIN hist |->
        IF \E i \in DOMAIN positions : positions[i].ticket = t
        THEN LET pos == positions[CHOOSE i \in DOMAIN positions :
                                      positions[i].ticket = t]
                 o   == manage_one(pos)
             IN  [stops        |-> LastN(hist[t].stops \o stops_of(o), MaxTrace),
                  partials     |-> hist[t].partials + (IF o.pc_vol > 0 THEN 1 ELSE 0),
                  last_partial |-> IF o.pc_vol > 0 THEN <<pos.volume, o.pc_vol>>
                                   ELSE hist[t].last_partial,
                  armed        |-> hist[t].armed \/ o.be,
                  seen         |-> TRUE,
                  evaluated    |-> o.evaluated,
                  rerun_moved  |-> repeat /\ after_orders(pos, o).sl # pos.sl,
                  used         |-> TRUE]
        ELSE hist[t]]

\* manage_positions_loop: positions_get() once, then every position in turn
manage_positions_loop ==
    [i \in DOMAIN positions |-> after_orders(positions[i], manage_one(positions[i]))]

\* ------------------------------------------------------------------ event path

\* the event thread between two events.  Besides the locals of on_open and
\* prepare_copy_trade it keeps, for the record in log: allowed and mult (the
\* allowed risk and the multiplier applied to it), sized (the lots lots_for_risk
\* gave), cap_lots (the lots that passed the open-risk cap), first_open and
\* first_rem (open risk and remaining daily budget read by the first open-risk
\* check), ok_open and ok_rem (the same, read by the check that passed), iters
\* (failed passes of the shrink loop), position (the ticket of the fill), eq,
\* rem_daily and at (equity, remaining daily budget and now_cest() when the OPEN
\* was handled), linked (MASTER2FOLLOW.get(ticket) when the OPEN was taken)
IdleEv ==
    [pc |-> "idle", m |-> NoMsg, eq |-> 0, rem_daily |-> 0, linked |-> 0,
     at |-> [date_key |-> 0, hour |-> 0, minute |-> 0],
     order_type |-> "", price |-> 0, sl_price |-> 0,
     tp_price |-> 0, sl_points |-> 0, sized |-> 0, lots |-> 0, fit_lots |-> 0,
     cap_lots |-> 0, allowed |-> 0, mult |-> 0, first_open |-> 0, first_rem |-> 0,
     ok_open |-> 0, ok_rem |-> 0, iters |-> 0, comment |-> <<>>, position |-> 0]

\* the record log keeps of a handled OPEN: the event thread's locals, with pc
\* replaced by the result: "none" (prepare_copy_trade returned None), "filled",
\* "venue_rejected" or "raised" (an exception reached tcp_server)
Outcome(e, result, ticket) == [e EXCEPT !.pc = result, !.position = ticket]

\* lines 450-474 of prepare_copy_trade (margin cap, request) and lines 86-92 of
\* on_open (the comment), once lots passed the open-risk cap: the event thread
\* after them, given its state e with e.lots set.  The arm tag is written
\* arm=na; whichever arm is active, the comment gains a second part
margin_cap(e) ==
    LET max_by_margin == max_lots_by_margin
        lots == IF e.lots > max_by_margin THEN max_by_margin ELSE e.lots
        base_comment == <<"B_COPY_RISK">>
        marked == IF \E i \in DOMAIN base_comment : base_comment[i] = COMMENT_MARK
                  THEN base_comment ELSE <<COMMENT_MARK>> \o base_comment
    IN  IF lots < MIN_LOT
        THEN [e EXCEPT !.pc = "none", !.cap_lots = e.lots, !.lots = 0]
        ELSE [e EXCEPT !.pc = "send", !.cap_lots = e.lots, !.lots = lots,
                       !.comment = marked \o <<"arm=na">>]

\* prepare_copy_trade up to and including its first open-risk check (lines
\* 350-437), with day_state already ds: the event thread after it
prepare_copy_trade(m, ds) ==
    LET eq          == get_equity
        rem_daily   == remaining_daily_loss(ds)
        rem_overall == remaining_overall_loss
        allowed     == compute_allowed_risk_usd(ds)
        mult        == _adapt_multiplier
        sl_points   == IF m.sl > 0 THEN Abs(m.entry - m.sl) ELSE synthetic_sl_points
        lots        == lots_for_risk(allowed * mult, 10, sl_points)
        eff_side    == IF ALNAFIE_MODE = "REVERSE"
                       THEN (IF m.type = "buy" THEN "sell" ELSE "buy")
                       ELSE m.type
        order_type  == IF eff_side = "buy" THEN "BUY" ELSE "SELL"
        price       == IF order_type = "BUY" THEN mkt.ask ELSE mkt.bid
        sl_base     == IF eff_side = "buy" THEN m.entry - sl_points
                       ELSE m.entry + sl_points
        min_dist0   == Max(info.trade_stops_level, info.freeze_level)
        min_dist    == min_dist0 + 5
        sl_price    == IF min_dist0 <= 0 THEN sl_base
                       ELSE IF order_type = "BUY"
                            THEN Min(sl_base, price - min_dist)
                            ELSE Max(sl_base, price + min_dist)
        tp_price    == IF m.tp > 0 THEN m.tp ELSE 0
        add_risk    == lots * sl_points * value_per_point
        e0          == [IdleEv EXCEPT !.m = m, !.eq = eq, !.rem_daily = rem_daily,
                                      !.at = now_cest,
                                      !.linked = MASTER2FOLLOW[m.ticket]]
        e1          == [e0 EXCEPT !.order_type = order_type, !.price = price,
                                  !.sl_price = sl_price, !.tp_price = tp_price,
                                  !.sl_points = sl_points, !.sized = lots,
                                  !.lots = lots, !.allowed = allowed, !.mult = mult,
                                  !.first_open = sum_open_risk_usd,
                                  !.first_rem = rem_daily,
                                  !.ok_open = sum_open_risk_usd,
                                  !.ok_rem = rem_daily]
    IN  IF m.symbol \notin SYMBOL_ALLOW THEN [e0 EXCEPT !.pc = "none"]
        ELSE IF ~in_session_window THEN [e0 EXCEPT !.pc = "none"]
        ELSE IF eq <= OVERALL_EQUITY_FLOOR THEN [e0 EXCEPT !.pc = "none"]
        ELSE IF rem_daily <= 0 \/ rem_overall <= 0 THEN [e0 EXCEPT !.pc = "none"]
        ELSE IF allowed <= 0 THEN [e0 EXCEPT !.pc = "none"]
        ELSE IF lots < MIN_LOT
             THEN [e0 EXCEPT !.pc = "none", !.allowed = allowed, !.mult = mult,
                             !.sl_points = sl_points]
        ELSE IF can_add_more_risk(ds, add_risk) THEN margin_cap(e1)
        ELSE [e1 EXCEPT !.pc = "shrink", !.fit_lots = lots]

\* one pass of the while loop of lines 439-448, the loop test included
shrink_step(e, ds) ==
    LET add_risk_fit == e.fit_lots * e.sl_points * value_per_point
    IN  IF e.fit_lots >= MIN_LOT
        THEN IF can_add_more_risk(ds, add_risk_fit)
             THEN margin_cap([e EXCEPT !.lots = e.fit_lots,
                                       !.ok_open = sum_open_risk_usd,
                                       !.ok_rem = remaining_daily_loss(ds)])
             ELSE [e EXCEPT !.fit_lots = round_lot(e.fit_lots - LOT_STEP, 1),
                            !.iters = @ + 1]
        ELSE [e EXCEPT !.pc = "none", !.lots = 0]

\* the event thread after e: a None from prepare_copy_trade ends on_open at once
settle(e) == IF e.pc = "none" THEN IdleEv ELSE e

log_of(e) == IF e.pc = "none" THEN Append(log, Outcome(e, "none", 0)) ELSE log

\* the test of daily_reset_if_needed, made by a thread entering it
needs_reset == day_state = NoDay \/ day_state.date_key # now_cest.date_key

\* a thread outside daily_reset_if_needed
IdleCall == [pc |-> "idle", date_key |-> 0, start_eq |-> 0]

\* roll before any call of daily_reset_if_needed: date_key is the latest date on
\* which it was called, first_equity the equity at the first call on that date,
\* created the number of DayStates created for that date
NoRoll ==
    [date_key |-> 0, first_equity |-> 0, created |-> 0,
     thr |-> [t \in {"t1", "t2"} |-> IdleCall]]

\* roll when day_state was created by the first call on its date
roll_of(ds) ==
    IF ds = NoDay THEN NoRoll
    ELSE [NoRoll EXCEPT !.date_key = ds.date_key, !.first_equity = ds.start_equity,
                        !.created = 1]

\* roll after a call of daily_reset_if_needed that ran without interruption and
\* left day_state as ds
roll_after_call(ds) ==
    LET first == roll.date_key # now_cest.date_key
        made  == IF ds # day_state THEN 1 ELSE 0
    IN  [roll EXCEPT !.date_key = now_cest.date_key,
                     !.first_equity = IF first THEN get_equity ELSE @,
                     !.created = IF first THEN made ELSE @ + made]

\* whether get_equity raises in the daily_reset_if_needed of this call:
\* account_info() is None when the DayState has to be created
reset_raises == needs_reset /\ ~venue.account

\* whether prepare_copy_trade(m) raises after daily_reset_if_needed left
\* day_state as ds, e being the event thread after it on a healthy venue:
\* get_equity at line 361 with account_info() None, value_per_point at line 257
\* reading .bid of a tick that is None
prepare_raises(m, e) ==
    \/ /\ m.symbol \in SYMBOL_ALLOW
       /\ in_session_window
       /\ ~venue.account
    \/ /\ e.mult > 0
       /\ e.sl_points > 0
       /\ ~venue.tick

\* handle_message -> on_open -> prepare_copy_trade, to the first open-risk
\* check; an exception is caught by tcp_server (lines 60-63), which goes on
\* with the next line
OnOpen ==
    /\ ev.pc = "idle"
    /\ inbox # <<>>
    /\ Head(inbox).event = "OPEN"
    /\ LET ds == daily_reset_if_needed
           e  == prepare_copy_trade(Head(inbox), ds)
           x  == Outcome([IdleEv EXCEPT !.m = Head(inbox), !.at = now_cest,
                                        !.linked = MASTER2FOLLOW[Head(inbox).ticket]],
                         "raised", 0)
       IN  IF reset_raises
           THEN /\ ev' = IdleEv
                /\ log' = Append(log, x)
                /\ UNCHANGED <<day_state, roll>>
           ELSE /\ day_state' = ds
                /\ roll' = roll_after_call(ds)
                /\ IF prepare_raises(Head(inbox), e)
                   THEN ev' = IdleEv /\ log' = Append(log, x)
                   ELSE ev' = settle(e) /\ log' = log_of(e)
    /\ inbox' = Tail(inbox)
    /\ ticked' = FALSE
    /\ UNCHANGED <<rms, mirror, copier, venue, alive, cfg, info, acct, mkt, positions, now_cest, MASTER2FOLLOW, hist>>

\* one pass of the shrink loop; each pass reads the account and the positions anew
Shrink ==
    /\ ev.pc = "shrink"
    /\ ev.iters < MaxShrinkIters
    /\ LET e == shrink_step(ev, day_state)
       IN  /\ ev' = settle(e)
           /\ log' = log_of(e)
    /\ ticked' = FALSE
    /\ UNCHANGED <<rms, mirror, copier, venue, alive, cfg, info, acct, mkt, positions, day_state, now_cest, inbox,
                   MASTER2FOLLOW, hist, roll>>

\* the ticket the venue gives the next position
new_ticket == CHOOSE t \in DOMAIN hist :
                  ~hist[t].used /\ \A u \in DOMAIN hist : ~hist[u].used => t <= u

\* lines 93-109 of on_open: send_order, then link master -> follower when the
\* order was placed; filled is the venue's answer
SendOrder ==
    /\ ev.pc = "send"
    /\ \E t \in DOMAIN hist : ~hist[t].used
    /\ \E filled \in BOOLEAN :
        IF filled
        THEN LET m   == ev.m
                 pos == [ticket |-> new_ticket, symbol |-> m.symbol,
                         type |-> ev.order_type, volume |-> ev.lots,
                         price_open |-> ev.price, sl |-> ev.sl_price,
                         tp |-> ev.tp_price, comment |-> ev.comment]
                 ps  == Append(positions, pos)
                 follower_type ==
                     IF COPY_MODE = "REVERSE"
                     THEN (IF m.type = "buy" THEN "SELL" ELSE "BUY")
                     ELSE (IF m.type = "buy" THEN "BUY" ELSE "SELL")
                 hit == {i \in DOMAIN ps :
                           /\ ps[i].symbol = m.symbol
                           /\ ps[i].type = follower_type
                           /\ \E k \in DOMAIN ps[i].comment :
                                  ps[i].comment[k] = COMMENT_MARK}
                 first == CHOOSE i \in hit : \A j \in hit : i <= j
             IN  /\ positions' = ps
                 /\ MASTER2FOLLOW' = IF hit = {} THEN MASTER2FOLLOW
                                     ELSE [MASTER2FOLLOW EXCEPT
                                              ![m.ticket] = ps[first].ticket]
                 /\ hist' = [hist EXCEPT ![new_ticket].used = TRUE]
                 /\ log' = Append(log, Outcome(ev, "filled", new_ticket))
        ELSE /\ log' = Append(log, Outcome(ev, "venue_rejected", 0))
             /\ UNCHANGED <<positions, MASTER2FOLLOW, hist>>
    /\ ev' = IdleEv
    /\ ticked' = FALSE
    /\ UNCHANGED <<rms, mirror, copier, venue, alive, cfg, info, acct, mkt, day_state, now_cest, inbox, roll>>

\* whether manage_positions_loop raises: rr_for_position, the first call made
\* for a managed position, reads .bid or .ask of a tick that is None
manage_raises == ~venue.tick /\ \E i \in DOMAIN positions : is_managed(positions[i])

\* one pass of the while loop of manager_loop: daily_reset_if_needed, then
\* manage_positions_loop.  Nothing in manager_loop catches an exception: one
\* raised in the pass ends the thread
ManagerTick ==
    /\ alive["t2"]
    /\ IF reset_raises
       THEN /\ alive' = [alive EXCEPT !["t2"] = FALSE]
            /\ ticked' = FALSE
            /\ UNCHANGED <<day_state, roll, positions, hist>>
       ELSE /\ day_state' = daily_reset_if_needed
            /\ roll' = roll_after_call(daily_reset_if_needed)
            /\ IF manage_raises
               THEN /\ alive' = [alive EXCEPT !["t2"] = FALSE]
                    /\ ticked' = FALSE
                    /\ UNCHANGED <<positions, hist>>
               ELSE /\ positions' = manage_positions_loop
                    /\ hist' = hist_after_tick(ticked)
                    /\ ticked' = TRUE
                    /\ UNCHANGED alive
    /\ UNCHANGED <<rms, mirror, copier, venue, cfg, info, acct, mkt, now_cest, inbox, ev, MASTER2FOLLOW,
                   log>>

\* handle_message -> on_modify: the master's new stop and target are sent for
\* the linked follower position; the answer of order_send is not read
OnModify ==
    /\ ev.pc = "idle"
    /\ inbox # <<>>
    /\ Head(inbox).event = "MODIFY"
    /\ LET m == Head(inbox)
           follower_ticket == MASTER2FOLLOW[m.ticket]
       IN  positions' =
               IF follower_ticket = 0 \/ ~venue.sltp THEN positions
               ELSE [i \in DOMAIN positions |->
                        IF positions[i].ticket = follower_ticket
                        THEN [positions[i] EXCEPT !.sl = m.sl, !.tp = m.tp]
                        ELSE positions[i]]
    /\ inbox' = Tail(inbox)
    /\ ticked' = FALSE
    /\ UNCHANGED <<rms, mirror, copier, venue, alive, cfg, info, acct, mkt, day_state, now_cest, ev,
                   MASTER2FOLLOW, log, hist, roll>>

\* positions without the one with ticket t
RECURSIVE without(_, _)
without(ps, t) ==
    IF ps = <<>> THEN <<>>
    ELSE IF Head(ps).ticket = t THEN without(Tail(ps), t)
    ELSE <<Head(ps)>> \o without(Tail(ps), t)

\* handle_message -> on_close: the link is popped first, then the follower
\* position is looked up, the tick read (None raises, caught by tcp_server) and
\* the closing deal sent; done is the venue's answer to the deal
OnClose ==
    /\ ev.pc = "idle"
    /\ inbox # <<>>
    /\ Head(inbox).event = "CLOSE"
    /\ LET m == Head(inbox)
           follower_ticket == MASTER2FOLLOW[m.ticket]
           found == \E i \in DOMAIN positions : positions[i].ticket = follower_ticket
       IN  /\ MASTER2FOLLOW' = [MASTER2FOLLOW EXCEPT ![m.ticket] = 0]
           /\ IF follower_ticket = 0 \/ ~found \/ ~venue.tick
              THEN positions' = positions
              ELSE \E done \in BOOLEAN :
                      positions' = IF done THEN without(positions, follower_ticket)
                                   ELSE positions
    /\ inbox' = Tail(inbox)
    /\ ticked' = FALSE
    /\ UNCHANGED <<rms, mirror, copier, venue, alive, cfg, info, acct, mkt, day_state, now_cest, ev,
                   log, hist, roll>>

\* ------------------------------------------------------------------ initial states

MasterTickets == {101, 102}

\* the configurations and clocks explored: the defaults in MIRROR and REVERSE
\* mode, ADAPT with a multiplier inside and outside [0.1, 2.0], and ADAPT with
\* the session filter on, inside and outside the killzones
Config(md, k, sf) ==
    [MIN_LOT |-> 1, LOT_STEP |-> 1, ALNAFIE_MODE |-> md,
     ADAPT_RISK_MULT_DEFAULT |-> k, SESSION_FILTER_ON |-> sf,
     ADAPT_RISK_MULT_ASIAN |-> <<>>, ADAPT_RISK_MULT_NFP |-> <<>>,
     DAILY_LOSS_LIMIT |-> 50000, DAILY_LOSS_PCT |-> 0]

Clock(h, mi) == [date_key |-> 1, hour |-> h, minute |-> mi]

Setups ==
    {<<Config("MIRROR", 10, FALSE), Clock(12, 30)>>,
     <<Config("REVERSE", 10, FALSE), Clock(12, 30)>>,
     <<Config("ADAPT", 15, FALSE), Clock(12, 30)>>,
     <<Config("ADAPT", 25, FALSE), Clock(12, 30)>>,
     <<Config("ADAPT", 15, TRUE), Clock(12, 30)>>,
     <<Config("ADAPT", 15, TRUE), Clock(5, 0)>>}

Infos ==
    {[vpp |-> 1, trade_stops_level |-> 0, freeze_level |-> 0,
      margin_per_lot |-> 100000]}

\* equity at the floor, 400 USD under and at the start of the day, all of it
\* free margin; and 400 USD under with free margin 20 USD above the 25% kept
Accounts ==
    {[equity |-> 900000, margin_free |-> 900000],
     [equity |-> 960000, margin_free |-> 960000],
     [equity |-> 960000, margin_free |-> 242000],
     [equity |-> 1000000, margin_free |-> 1000000]}

Markets ==
    {[bid |-> 5000, ask |-> 5000, atr_pts |-> 0, bars |-> 0],
     [bid |-> 5000, ask |-> 5001, atr_pts |-> 400, bars |-> 15],
     [bid |-> 4400, ask |-> 4401, atr_pts |-> 400, bars |-> 15]}

DayStates == {NoDay, [date_key |-> 1, start_equity |-> 1000000]}

\* OPEN events of the watcher: a master buy at 5000 with its stop 1000 or 3000
\* points away, or without a stop
Open(t, sl) ==
    [event |-> "OPEN", ticket |-> t, symbol |-> "XAUUSD", type |-> "buy",
     entry |-> 5000, sl |-> sl, tp |-> 0]

MasterStops == {0, 2000, 4000}

Inboxes == {<<Open(101, a), Open(102, b)>> : a \in MasterStops, b \in MasterStops}

\* a position the engine opened earlier (prepare_copy_trade's request sent as
\* it is): SELL 0.05 at 5000, stop at 6000
EnginePosition ==
    [ticket |-> 1, symbol |-> "XAUUSD", type |-> "SELL", volume |-> 5,
     price_open |-> 5000, sl |-> 6000, tp |-> 0, comment |-> <<"B_COPY_RISK">>]

Init ==
    /\ \E su \in Setups : cfg = su[1] /\ now_cest = su[2]
    /\ info \in Infos
    /\ acct \in Accounts
    /\ mkt \in Markets
    /\ positions \in {<<>>, <<EnginePosition>>}
    /\ day_state \in DayStates
    /\ inbox \in Inboxes
    /\ ev = IdleEv
    /\ MASTER2FOLLOW = [t \in MasterTickets |-> 0]
    /\ ticked = FALSE
    /\ log = <<>>
    /\ roll = roll_of(day_state)
    /\ venue = Healthy
    /\ rms = NoRms /\ mirror = NoMirror /\ copier = NoCopier
    /\ alive = AllAlive
    /\ hist = [t \in 1..MaxTickets |->
                  [NoHist EXCEPT !.used = \E i \in DOMAIN positions :
                                              positions[i].ticket = t]]

Next == OnOpen \/ Shrink \/ SendOrder \/ ManagerTick

Spec == Init /\ [][Next]_vars

\* ------------------------------------------------------------------ lifecycle of one position

\* the venue closes a position whose stop the new quotes q reach
stopped_out(pos, q) ==
    /\ pos.sl # 0
    /\ \/ (pos.type = "BUY" /\ q.bid <= pos.sl)
       \/ (pos.type = "SELL" /\ q.ask >= pos.sl)

RECURSIVE still_open(_, _)
still_open(ps, q) ==
    IF ps = <<>> THEN <<>>
    ELSE IF stopped_out(Head(ps), q) THEN still_open(Tail(ps), q)
    ELSE <<Head(ps)>> \o still_open(Tail(ps), q)

LifeBids == {14, 16, 20, 24, 26}

LifeSpreads == {0, 1}

LifeAtrs == {0, 3}

LifeMarkets ==
    {[bid |-> b, ask |-> b + sp, atr_pts |-> a, bars |-> IF a = 0 THEN 0 ELSE 15] :
        b \in LifeBids, sp \in LifeSpreads, a \in LifeAtrs}

\* quotes and bars move between two management ticks
MarketMove ==
    /\ \E q \in LifeMarkets :
          /\ q # mkt
          /\ mkt' = q
          /\ positions' = still_open(positions, q)
    /\ ticked' = FALSE
    /\ UNCHANGED <<rms, mirror, copier, venue, alive, cfg, info, acct, day_state, now_cest, inbox, ev, MASTER2FOLLOW,
                   log, hist, roll>>

\* MIN_LOT and LOT_STEP as the environment may set them: the defaults, a
\* minimum of two steps, and a step of two minimums
LifeConfigs ==
    {[Config("REVERSE", 10, FALSE) EXCEPT !.MIN_LOT = c[1], !.LOT_STEP = c[2]] :
        c \in {<<1, 1>>, <<2, 1>>, <<1, 2>>}}

\* how many lot units the position under management starts with, at most
MaxLifeVolume == 5

\* the engine's position under management: opened at 20 with the stop 4 points
\* away, or without a stop, at a volume round_lot can give
LifePositions ==
    {[ticket |-> 1, symbol |-> "XAUUSD", type |-> ty, volume |-> v,
      price_open |-> 20, sl |-> IF d = 0 THEN 0 ELSE IF ty = "BUY" THEN 20 - d ELSE 20 + d,
      tp |-> 0, comment |-> <<"B_COPY_RISK">>] :
        ty \in {"BUY", "SELL"}, v \in 1..MaxLifeVolume, d \in {0, 4}}

InitLife ==
    /\ cfg \in LifeConfigs
    /\ info \in Infos
    /\ acct = [equity |-> 1000000, margin_free |-> 1000000]
    /\ mkt \in {q \in LifeMarkets : q.bid = 20}
    /\ \E pos \in LifePositions :
          /\ pos.volume >= MIN_LOT
          /\ pos.volume = MIN_LOT \/ pos.volume % LOT_STEP = 0
          /\ positions = <<pos>>
    /\ day_state = NoDay
    /\ now_cest = Clock(12, 30)
    /\ inbox = <<>>
    /\ ev = IdleEv
    /\ MASTER2FOLLOW = [t \in MasterTickets |-> 0]
    /\ ticked = FALSE
    /\ log = <<>>
    /\ roll = NoRoll
    /\ venue = Healthy
    /\ rms = NoRms /\ mirror = NoMirror /\ copier = NoCopier
    /\ alive = AllAlive
    /\ hist = [t \in 1..MaxTickets |-> [NoHist EXCEPT !.used = (t = 1)]]

NextLife == ManagerTick \/ MarketMove

SpecLife == InitLife /\ [][NextLife]_vars

\* ------------------------------------------------------------------ budgets over days

\* equity as account_info() may report it: at the overall floor, 500 and 300 USD
\* under 10000, and 10000
BudgetEquities == {900000, 950000, 970000, 1000000}

\* equity changes between two reads (the venue marks the account to market)
EquityMove ==
    /\ \E e \in BudgetEquities :
          /\ e # acct.equity
          /\ acct' = [equity |-> e, margin_free |-> e]
    /\ ticked' = FALSE
    /\ UNCHANGED <<rms, mirror, copier, venue, alive, cfg, info, mkt, positions, day_state, now_cest, inbox, ev,
                   MASTER2FOLLOW, log, hist, roll>>

BudgetDates == {1, 2}

\* now_cest() at 05:00 (outside every killzone) and 12:30 (inside one)
BudgetClocks == {[Clock(hm[1], hm[2]) EXCEPT !.date_key = d] :
                    d \in BudgetDates, hm \in {<<5, 0>>, <<12, 30>>}}

\* whether clock a is earlier than clock b
Earlier(a, b) ==
    \/ a.date_key < b.date_key
    \/ a.date_key = b.date_key /\ a.hour * 60 + a.minute < b.hour * 60 + b.minute

\* time passes
ClockMove ==
    /\ \E c \in BudgetClocks : Earlier(now_cest, c) /\ now_cest' = c
    /\ ticked' = FALSE
    /\ UNCHANGED <<rms, mirror, copier, venue, alive, cfg, info, acct, mkt, positions, day_state, inbox, ev,
                   MASTER2FOLLOW, log, hist, roll>>

\* the defaults; DAILY_LOSS_PCT set to 3% and to 10%; the session filter on
BudgetConfigs ==
    {Config("REVERSE", 10, FALSE),
     [Config("REVERSE", 10, FALSE) EXCEPT !.DAILY_LOSS_PCT = 300],
     [Config("MIRROR", 10, FALSE) EXCEPT !.DAILY_LOSS_PCT = 1000],
     Config("MIRROR", 10, TRUE)}

\* OPEN events: a gold buy with its stop 50 points away, a gold sell without a
\* stop, a gold sell with its stop 1000 points away, and a euro buy
BudgetOpens ==
    {[Open(101, 4950) EXCEPT !.type = "buy"],
     [Open(101, 0) EXCEPT !.type = "sell"],
     [Open(101, 6000) EXCEPT !.type = "sell"],
     [Open(101, 4000) EXCEPT !.symbol = "EURUSD"]}

InitBudget ==
    /\ cfg \in BudgetConfigs
    /\ info \in Infos
    /\ \E e \in BudgetEquities : acct = [equity |-> e, margin_free |-> e]
    /\ mkt \in {q \in Markets : q.bid = 5000}
    /\ positions \in {<<>>, <<EnginePosition>>}
    /\ day_state \in DayStates
    /\ now_cest \in {c \in BudgetClocks : c.date_key = 1}
    /\ \E m \in BudgetOpens : inbox = <<m>>
    /\ ev = IdleEv
    /\ MASTER2FOLLOW = [t \in MasterTickets |-> 0]
    /\ ticked = FALSE
    /\ log = <<>>
    /\ roll = roll_of(day_state)
    /\ venue = Healthy
    /\ rms = NoRms /\ mirror = NoMirror /\ copier = NoCopier
    /\ alive = AllAlive
    /\ hist = [t \in 1..MaxTickets |->
                  [NoHist EXCEPT !.used = \E i \in DOMAIN positions :
                                              positions[i].ticket = t]]

NextBudget == OnOpen \/ Shrink \/ SendOrder \/ ManagerTick \/ EquityMove \/ ClockMove

SpecBudget == InitBudget /\ [][NextBudget]_vars

\* ------------------------------------------------------------------ the two threads in daily_reset_if_needed

\* roll when thread t passed the test and holds date_key
roll_entered(t) ==
    [roll EXCEPT !.thr[t] = [pc |-> "snapshot", date_key |-> now_cest.date_key,
                             start_eq |-> 0]]

\* roll when thread t read start_eq = get_equity(): the first read made for a
\* date is the first equity observed on it
roll_snapshot(t) ==
    LET d     == roll.thr[t].date_key
        first == roll.date_key # d
    IN  [roll EXCEPT !.thr[t].pc = "store",
                     !.thr[t].start_eq = get_equity,
                     !.date_key = d,
                     !.first_equity = IF first THEN get_equity ELSE @,
                     !.created = IF first THEN 0 ELSE @]

\* roll when thread t assigned its DayState to day_state
roll_stored(t) ==
    [roll EXCEPT !.thr[t] = IdleCall,
                 !.created = IF roll.thr[t].date_key = roll.date_key THEN @ + 1 ELSE @]

\* the DayState thread t assigns
stored_day(t) ==
    [date_key |-> roll.thr[t].date_key, start_equity |-> roll.thr[t].start_eq]

\* get_equity() in daily_reset_if_needed, by either thread
Snapshot ==
    /\ \E t \in {"t1", "t2"} :
          /\ roll.thr[t].pc = "snapshot"
          /\ roll' = roll_snapshot(t)
    /\ ticked' = FALSE
    /\ UNCHANGED <<rms, mirror, copier, venue, alive, cfg, info, acct, mkt, positions, day_state, now_cest, inbox, ev,
                   MASTER2FOLLOW, log, hist>>

\* event thread: handle_message -> on_open -> prepare_copy_trade enters
\* daily_reset_if_needed; when no reset is needed the call returns and
\* prepare_copy_trade runs on to its first open-risk check
EventEnter ==
    /\ ev.pc = "idle"
    /\ roll.thr["t1"].pc = "idle"
    /\ inbox # <<>>
    /\ Head(inbox).event = "OPEN"
    /\ IF needs_reset
       THEN /\ roll' = roll_entered("t1")
            /\ UNCHANGED <<inbox, ev, log>>
       ELSE LET e == prepare_copy_trade(Head(inbox), day_state)
            IN  /\ ev' = settle(e)
                /\ log' = log_of(e)
                /\ inbox' = Tail(inbox)
                /\ UNCHANGED roll
    /\ ticked' = FALSE
    /\ UNCHANGED <<rms, mirror, copier, venue, alive, cfg, info, acct, mkt, positions, day_state, now_cest,
                   MASTER2FOLLOW, hist>>

\* event thread: the assignment to day_state, then prepare_copy_trade to its
\* first open-risk check
EventStore ==
    /\ roll.thr["t1"].pc = "store"
    /\ LET ds == stored_day("t1")
           e  == prepare_copy_trade(Head(inbox), ds)
       IN  /\ day_state' = ds
           /\ ev' = settle(e)
           /\ log' = log_of(e)
    /\ roll' = roll_stored("t1")
    /\ inbox' = Tail(inbox)
    /\ ticked' = FALSE
    /\ UNCHANGED <<rms, mirror, copier, venue, alive, cfg, info, acct, mkt, positions, now_cest, MASTER2FOLLOW, hist>>

\* manager thread: one pass of manager_loop enters daily_reset_if_needed; when
\* no reset is needed manage_positions_loop follows at once
ManagerEnter ==
    /\ roll.thr["t2"].pc = "idle"
    /\ IF needs_reset
       THEN /\ roll' = roll_entered("t2")
            /\ ticked' = FALSE
            /\ UNCHANGED <<positions, hist>>
       ELSE /\ positions' = manage_positions_loop
            /\ hist' = hist_after_tick(ticked)
            /\ ticked' = TRUE
            /\ UNCHANGED roll
    /\ UNCHANGED <<rms, mirror, copier, venue, alive, cfg, info, acct, mkt, day_state, now_cest, inbox, ev,
                   MASTER2FOLLOW, log>>

\* manager thread: the assignment to day_state, then manage_positions_loop
ManagerStore ==
    /\ roll.thr["t2"].pc = "store"
    /\ day_state' = stored_day("t2")
    /\ roll' = roll_stored("t2")
    /\ positions' = manage_positions_loop
    /\ hist' = hist_after_tick(ticked)
    /\ ticked' = TRUE
    /\ UNCHANGED <<rms, mirror, copier, venue, alive, cfg, info, acct, mkt, now_cest, inbox, ev, MASTER2FOLLOW, log>>

\* the defaults, and DAILY_LOSS_PCT set to 3%
RaceConfigs ==
    {Config("REVERSE", 10, FALSE),
     [Config("REVERSE", 10, FALSE) EXCEPT !.DAILY_LOSS_PCT = 300]}

InitRace ==
    /\ cfg \in RaceConfigs
    /\ info \in Infos
    /\ acct = [equity |-> 1000000, margin_free |-> 1000000]
    /\ mkt \in {q \in Markets : q.bid = 5000 /\ q.atr_pts = 0}
    /\ positions = <<EnginePosition>>
    /\ day_state \in DayStates
    /\ now_cest = Clock(12, 30)
    /\ \E m \in BudgetOpens : m.symbol \in SYMBOL_ALLOW /\ m.sl > 0 /\ inbox = <<m>>
    /\ ev = IdleEv
    /\ MASTER2FOLLOW = [t \in MasterTickets |-> 0]
    /\ ticked = FALSE
    /\ log = <<>>
    /\ roll = roll_of(day_state)
    /\ venue = Healthy
    /\ rms = NoRms /\ mirror = NoMirror /\ copier = NoCopier
    /\ alive = AllAlive
    /\ hist = [t \in 1..MaxTickets |->
                  [NoHist EXCEPT !.used = \E i \in DOMAIN positions :
                                              positions[i].ticket = t]]

NextRace ==
    \/ EventEnter \/ EventStore \/ Shrink \/ SendOrder
    \/ ManagerEnter \/ ManagerStore \/ Snapshot
    \/ EquityMove \/ ClockMove

SpecRace == InitRace /\ [][NextRace]_vars

\* ------------------------------------------------------------------ sizing over configurations

\* MIN_LOT and LOT_STEP of a venue whose minimum is a whole number of steps, in
\* the default mode; ADAPT with ADAPT_RISK_MULT_DEFAULT below, inside and above
\* [0.1, 2.0]; ADAPT with the Asian and the NFP multiplier set; MIRROR with a
\* multiplier configured
SizeConfigs ==
    {[Config("REVERSE", 10, FALSE) EXCEPT !.MIN_LOT = c[1], !.LOT_STEP = c[2]] :
        c \in {<<1, 1>>, <<2, 1>>, <<2, 2>>}}
    \cup {Config("ADAPT", k, FALSE) : k \in {-5, 5, 15, 25}}
    \cup {[Config("ADAPT", 15, TRUE) EXCEPT !.ADAPT_RISK_MULT_ASIAN = <<3>>],
          [Config("ADAPT", 15, FALSE) EXCEPT !.ADAPT_RISK_MULT_NFP = <<8>>],
          [Config("ADAPT", 15, FALSE) EXCEPT !.ADAPT_RISK_MULT_NFP = <<30>>],
          Config("MIRROR", 25, FALSE)}

\* value per point 1 and 3 USD per lot
SizeInfos == Infos \cup {[i EXCEPT !.vpp = 3] : i \in Infos}

\* OPEN events: a master buy at 5000 with its stop 10, 50 or 3000 points away,
\* or without a stop
SizeOpens == {Open(101, sl) : sl \in {0, 2000, 4950, 4990}}

InitSize ==
    /\ cfg \in SizeConfigs
    /\ info \in SizeInfos
    /\ \E e \in {970000, 1000000} : acct = [equity |-> e, margin_free |-> e]
    /\ mkt \in {q \in Markets : q.bid = 5000 /\ q.atr_pts = 0}
    /\ positions \in {<<>>, <<EnginePosition>>}
    /\ day_state = [date_key |-> 1, start_equity |-> 1000000]
    /\ now_cest \in {Clock(5, 0), Clock(12, 30)}
    /\ \E m \in SizeOpens : inbox = <<m>>
    /\ ev = IdleEv
    /\ MASTER2FOLLOW = [t \in MasterTickets |-> 0]
    /\ ticked = FALSE
    /\ log = <<>>
    /\ roll = roll_of(day_state)
    /\ venue = Healthy
    /\ rms = NoRms /\ mirror = NoMirror /\ copier = NoCopier
    /\ alive = AllAlive
    /\ hist = [t \in 1..MaxTickets |->
                  [NoHist EXCEPT !.used = \E i \in DOMAIN positions :
                                              positions[i].ticket = t]]

NextSize == OnOpen \/ Shrink \/ SendOrder \/ ManagerTick

SpecSize == InitSize /\ [][NextSize]_vars

\* ------------------------------------------------------------------ one proposal against the venue's limits

\* symbol facts: no stops level, stops and freeze level 10 points each, stops
\* level 100 points
OrderInfos ==
    {[vpp |-> 1, trade_stops_level |-> l[1], freeze_level |-> l[2],
      margin_per_lot |-> 100000] : l \in {<<0, 0>>, <<10, 10>>, <<100, 0>>}}

\* account_info(): all equity free; free margin 20 USD above, at, and 500 USD
\* below the 25% of equity kept free; and 380 USD lost today
OrderAccounts ==
    {[equity |-> 1000000, margin_free |-> 1000000],
     [equity |-> 1000000, margin_free |-> 252000],
     [equity |-> 1000000, margin_free |-> 250000],
     [equity |-> 1000000, margin_free |-> 200000],
     [equity |-> 962000, margin_free |-> 962000]}

\* quotes at the master's entry, and 50 and 90 points to either side of it
OrderMarkets ==
    {[bid |-> 5000, ask |-> 5001, atr_pts |-> 0, bars |-> 0],
     [bid |-> 5000, ask |-> 5001, atr_pts |-> 400, bars |-> 15],
     [bid |-> 5050, ask |-> 5051, atr_pts |-> 0, bars |-> 0],
     [bid |-> 5090, ask |-> 5091, atr_pts |-> 0, bars |-> 0],
     [bid |-> 4950, ask |-> 4951, atr_pts |-> 0, bars |-> 0],
     [bid |-> 4910, ask |-> 4911, atr_pts |-> 0, bars |-> 0]}

\* OPEN events: a master buy or sell at 5000, its stop 50 or 1000 points away on
\* its loss side or absent, its target 100 points away on its profit side or
\* absent
OrderOpens ==
    {[event |-> "OPEN", ticket |-> 101, symbol |-> "XAUUSD", type |-> ty,
      entry |-> 5000,
      sl |-> IF d = 0 THEN 0 ELSE IF ty = "buy" THEN 5000 - d ELSE 5000 + d,
      tp |-> IF g = 0 THEN 0 ELSE IF ty = "buy" THEN 5000 + g ELSE 5000 - g] :
        ty \in {"buy", "sell"}, d \in {0, 50, 1000}, g \in {0, 100}}

InitOrder ==
    /\ cfg \in {Config("REVERSE", 10, FALSE), Config("MIRROR", 10, FALSE)}
    /\ info \in OrderInfos
    /\ acct \in OrderAccounts
    /\ mkt \in OrderMarkets
    /\ positions \in {<<>>, <<EnginePosition>>}
    /\ day_state = [date_key |-> 1, start_equity |-> 1000000]
    /\ now_cest = Clock(12, 30)
    /\ \E m \in OrderOpens : inbox = <<m>>
    /\ ev = IdleEv
    /\ MASTER2FOLLOW = [t \in MasterTickets |-> 0]
    /\ ticked = FALSE
    /\ log = <<>>
    /\ roll = roll_of(day_state)
    /\ venue = Healthy
    /\ rms = NoRms /\ mirror = NoMirror /\ copier = NoCopier
    /\ alive = AllAlive
    /\ hist = [t \in 1..MaxTickets |->
                  [NoHist EXCEPT !.used = \E i \in DOMAIN positions :
                                              positions[i].ticket = t]]

NextOrder == OnOpen \/ Shrink \/ SendOrder \/ ManagerTick

SpecOrder == InitOrder /\ [][NextOrder]_vars

\* ------------------------------------------------------------------ the event stream and a failing venue

\* what the venue may answer: account_info() and symbol_info_tick() a value or
\* None, a stop change accepted or rejected
Venues == [account : BOOLEAN, tick : BOOLEAN, sltp : BOOLEAN]

\* the venue's answers change between two events or ticks
VenueChange ==
    /\ ev.pc = "idle"
    /\ \E v \in Venues : v # venue /\ venue' = v
    /\ ticked' = FALSE
    /\ UNCHANGED <<rms, mirror, copier, alive, cfg, info, acct, mkt, positions, day_state, now_cest,
                   inbox, ev, MASTER2FOLLOW, log, hist, roll>>

\* MODIFY and CLOSE events of the watcher for master ticket t
Modify(t, sl, tp) ==
    [event |-> "MODIFY", ticket |-> t, symbol |-> "XAUUSD", type |-> "buy",
     entry |-> 0, sl |-> sl, tp |-> tp]

Close(t) ==
    [event |-> "CLOSE", ticket |-> t, symbol |-> "XAUUSD", type |-> "buy",
     entry |-> 0, sl |-> 0, tp |-> 0]

\* the events of one master position: its OPEN (buy at 5000, stop 4000), its
\* stop moved to 4500 with a target of 5500, its stop and target removed, its
\* CLOSE
EventMessages == {Open(101, 4000), Modify(101, 4500, 5500), Modify(101, 0, 0), Close(101)}

\* three lines on the watcher connection, delivered at least once: the OPEN
\* first and then any two events, the OPEN again included; or a MODIFY or a
\* CLOSE ahead of the OPEN
EventInboxes ==
    {<<Open(101, 4000), a, b>> : a \in EventMessages, b \in EventMessages}
    \cup {<<Modify(101, 4500, 5500), Open(101, 4000), Close(101)>>,
          <<Close(101), Open(101, 4000), Modify(101, 0, 0)>>}

InitEvents ==
    /\ cfg \in {Config("REVERSE", 10, FALSE), Config("MIRROR", 10, FALSE)}
    /\ info \in Infos
    /\ acct = [equity |-> 960000, margin_free |-> 960000]
    /\ mkt \in {q \in Markets : q.bid = 5000}
    /\ positions \in {<<>>, <<EnginePosition>>}
    /\ day_state \in DayStates
    /\ now_cest = Clock(12, 30)
    /\ inbox \in EventInboxes
    /\ ev = IdleEv
    /\ MASTER2FOLLOW = [t \in MasterTickets |-> 0]
    /\ ticked = FALSE
    /\ log = <<>>
    /\ roll = roll_of(day_state)
    /\ venue = Healthy
    /\ rms = NoRms /\ mirror = NoMirror /\ copier = NoCopier
    /\ alive = AllAlive
    /\ hist = [t \in 1..MaxTickets |->
                  [NoHist EXCEPT !.used = \E i \in DOMAIN positions :
                                              positions[i].ticket = t]]

NextEvents ==
    OnOpen \/ Shrink \/ SendOrder \/ OnModify \/ OnClose \/ ManagerTick \/ VenueChange

SpecEvents == InitEvents /\ [][NextEvents]_vars

\* ------------------------------------------------------------------ lifecycle on a failing venue

\* one position under management, met by the manager at any of the quotes,
\* while the venue's answers come and go
InitVenue ==
    /\ cfg = Config("REVERSE", 10, FALSE)
    /\ info \in Infos
    /\ acct = [equity |-> 1000000, margin_free |-> 1000000]
    /\ mkt \in LifeMarkets
    /\ \E pos \in LifePositions : positions = <<pos>>
    /\ day_state \in DayStates
    /\ now_cest = Clock(12, 30)
    /\ inbox = <<>>
    /\ ev = IdleEv
    /\ MASTER2FOLLOW = [t \in MasterTickets |-> 0]
    /\ ticked = FALSE
    /\ log = <<>>
    /\ roll = roll_of(day_state)
    /\ venue = Healthy
    /\ rms = NoRms /\ mirror = NoMirror /\ copier = NoCopier
    /\ alive = AllAlive
    /\ hist = [t \in 1..MaxTickets |-> [NoHist EXCEPT !.used = (t = 1)]]

NextVenue == ManagerTick \/ VenueChange

SpecVenue == InitVenue /\ [][NextVenue]_vars

\* ------------------------------------------------------------------ trailing while bars arrive

\* quotes with a mean true range of 3 points or a flat market, and 13 bars or
\* more of history
BarMarkets ==
    {[bid |-> b, ask |-> b + sp, atr_pts |-> a, bars |-> n] :
        b \in LifeBids, sp \in LifeSpreads, a \in LifeAtrs, n \in 13..MaxBars}

\* a bar of the managed timeframe closes
NewBar ==
    /\ mkt.bars < MaxBars
    /\ mkt' = [mkt EXCEPT !.bars = @ + 1]
    /\ ticked' = FALSE
    /\ UNCHANGED <<rms, mirror, copier, venue, alive, cfg, info, acct, positions, day_state, now_cest,
                   inbox, ev, MASTER2FOLLOW, log, hist, roll>>

InitBars ==
    /\ cfg = Config("REVERSE", 10, FALSE)
    /\ info \in Infos
    /\ acct = [equity |-> 1000000, margin_free |-> 1000000]
    /\ mkt \in {q \in BarMarkets : q.bars = 13}
    /\ \E pos \in LifePositions : positions = <<pos>>
    /\ day_state = [date_key |-> 1, start_equity |-> 1000000]
    /\ now_cest = Clock(12, 30)
    /\ inbox = <<>>
    /\ ev = IdleEv
    /\ MASTER2FOLLOW = [t \in MasterTickets |-> 0]
    /\ ticked = FALSE
    /\ log = <<>>
    /\ roll = roll_of(day_state)
    /\ venue = Healthy
    /\ rms = NoRms /\ mirror = NoMirror /\ copier = NoCopier
    /\ alive = AllAlive
    /\ hist = [t \in 1..MaxTickets |-> [NoHist EXCEPT !.used = (t = 1)]]

NextBars == ManagerTick \/ NewBar

SpecBars == InitBars /\ [][NextBars]_vars


\* ------------------------------------------------------------------ reverse_mirror_simple.py
\* A second program of the repository: it replaces each manual position of
\* the account by a risk-sized position in the opposite direction.  It runs
\* against the same venue (info, acct, mkt, positions).  Units as above; a
\* percentage of equity p is carried as p x equity, which is 100 x the money
\* it stands for, so that equity * (p / 100) is exact.

MAGIC == 909912

\* REPLACE_SEQUENCE, CAP_TO_DAILY and DRY_RUN are read from the environment
REPLACE_SEQUENCE == cfg.REPLACE_SEQUENCE

MODE == "REVERSE"

SYMBOL_ALLOWLIST == {"XAUUSD", "US100", "US100.cash", "USTECm"}

RISK_PCT == 1

MAX_FALLBACK_PIPS == 70

DAILY_DD_LIMIT_PCT == 5

CAP_TO_DAILY == cfg.CAP_TO_DAILY

COMMENT_PREFIX == "REV_MIRROR"

DRY_RUN == cfg.DRY_RUN

CONTROL_SYMBOL == "EURUSD"

PAUSE_WHEN_CONTROL_PRESENT == TRUE

\* a comment is the sequence of its words
startswith(comment, prefix) == Len(comment) > 0 /\ comment[1] = prefix

\* info.point is 1, so a pip is 10 points
pip_points == 10

\* s == a, s.startswith(a) or a in s, on the symbols of the model
allowed_symbol(symbol) == symbol \in SYMBOL_ALLOWLIST

\* a level None is carried as 0; stops_pts and freeze_pts are in points
clamp_to_stops(order_type, sl, tp) ==
    LET min_dist_points == Max(info.trade_stops_level, info.freeze_level)
    IN  IF ~venue.tick \/ min_dist_points <= 0 THEN [sl |-> sl, tp |-> tp]
        ELSE IF order_type = "BUY"
             THEN [sl |-> IF sl # 0 THEN Min(sl, mkt.bid - min_dist_points) ELSE 0,
                   tp |-> IF tp # 0 THEN Max(tp, mkt.ask + min_dist_points) ELSE 0]
             ELSE [sl |-> IF sl # 0 THEN Max(sl, mkt.ask + min_dist_points) ELSE 0,
                   tp |-> IF tp # 0 THEN Min(tp, mkt.bid - min_dist_points) ELSE 0]

\* realized profit of today's deals (profit + commission + swap)
todays_realized_pnl == acct.realized_today

RECURSIVE sum_profit_today(_)
sum_profit_today(ps) ==
    IF ps = <<>> THEN 0
    ELSE (IF Head(ps).today THEN Head(ps).profit ELSE 0) + sum_profit_today(Tail(ps))

todays_floating_pnl_opened_today == sum_profit_today(positions)

\* the remaining daily budget in money (remaining_amt)
remaining_daily_amount ==
    LET equity == acct.equity
        realized_today == todays_realized_pnl
        floating_today == todays_floating_pnl_opened_today
        start_eq_today == equity - realized_today - floating_today
        daily_cap_amt == Max(0, (start_eq_today * DAILY_DD_LIMIT_PCT) \div 100)
        total_today_pnl == realized_today + floating_today
        consumed == Max(0, -total_today_pnl)
    IN  Max(0, daily_cap_amt - consumed)

\* (remaining_amt / equity) * 100, carried as percent x equity
remaining_daily_risk_pct_equity ==
    IF acct.equity <= 0 THEN 0 ELSE remaining_daily_amount * 100

effective_risk_pct ==
    IF ~CAP_TO_DAILY THEN RISK_PCT * acct.equity
    ELSE Max(0, Min(RISK_PCT * acct.equity, remaining_daily_risk_pct_equity))

\* money lost per lot unit when the stop at sl_price is hit
money_per_lot(order_type, sl_price) ==
    LET price == IF order_type = "BUY" THEN mkt.ask ELSE mkt.bid
        sl_dist == Abs(price - sl_price)
        tick_sz == IF info.trade_tick_size <= 0 THEN 1 ELSE info.trade_tick_size
        tick_val == IF info.trade_tick_value <= 0
                    THEN (IF info.trade_contract_size > 0
                          THEN info.trade_contract_size * tick_sz ELSE 0)
                    ELSE info.trade_tick_value
    IN  IF tick_val <= 0 THEN 0 ELSE (sl_dist * tick_val) \div tick_sz

risk_lots(order_type, sl_price) ==
    IF ~venue.account \/ ~venue.tick THEN 0
    ELSE LET n == effective_risk_pct                \* risk_money x 100
             mpl == money_per_lot(order_type, sl_price)
             d == 100 * mpl
             minlot == info.volume_min
             maxlot == info.volume_max
             step == info.volume_step
         IN  IF mpl <= 0 THEN 0
             ELSE IF n <= minlot * d THEN (minlot \div step) * step
             ELSE IF n >= maxlot * d THEN (maxlot \div step) * step
             ELSE (n \div (d * step)) * step

\* what open_replacement computes for the manual position pos before it
\* sends anything: direction, stop, target and volume of the replacement
replacement_plan(pos) ==
    LET reverse == MODE = "REVERSE"
        new_type == IF reverse THEN (IF pos.type = "BUY" THEN "SELL" ELSE "BUY")
                    ELSE pos.type
        price == IF new_type = "BUY" THEN mkt.ask ELSE mkt.bid
        swapTP == IF pos.sl > 0 THEN pos.sl ELSE 0
        swapSL == IF pos.sl > 0 /\ pos.tp > 0 THEN pos.tp ELSE 0
        max_dist == MAX_FALLBACK_PIPS * pip_points
        newSL == IF swapSL # 0 THEN swapSL
                 ELSE IF new_type = "BUY" THEN price - max_dist ELSE price + max_dist
        newTP == IF swapTP # 0 THEN swapTP
                 ELSE IF new_type = "BUY" THEN price + (price - newSL)
                 ELSE price - (newSL - price)
        lots == risk_lots(new_type, newSL)
    IN  [type |-> new_type, sl |-> newSL, tp |-> newTP,
         lots |-> IF lots <= 0 THEN pos.volume ELSE lots]

\* the request deal() builds; it carries no "position" field, also when it is
\* called by close_position with a position ticket
deal_request(symbol, order_type, lots, sl, tp, comment) ==
    LET c == clamp_to_stops(order_type, sl, tp)
    IN  [symbol |-> symbol, type |-> order_type, volume |-> lots,
         price |-> IF order_type = "BUY" THEN mkt.ask ELSE mkt.bid,
         sl |-> c.sl, tp |-> c.tp, magic |-> MAGIC, comment |-> comment]

close_request(pos) ==
    deal_request(pos.symbol, IF pos.type = "BUY" THEN "SELL" ELSE "BUY", pos.volume, 0, 0,
                 <<COMMENT_PREFIX, "close_orig">>)

\* the venue (a hedging account) fills a deal that names no position by
\* opening a position under the next ticket
filled(req, t) ==
    [ticket |-> t, symbol |-> req.symbol, type |-> req.type, volume |-> req.volume,
     price_open |-> req.price, sl |-> req.sl, tp |-> req.tp,
     comment |-> req.comment, magic |-> req.magic, profit |-> 0, today |-> TRUE]

control_pause_active ==
    PAUSE_WHEN_CONTROL_PRESENT
        /\ \E i \in DOMAIN positions : positions[i].symbol = CONTROL_SYMBOL

replaceable_without_owner_test(p) ==
    p.ticket \notin rms.seen /\ allowed_symbol(p.symbol)

\* the tests of main on a position of the snapshot, before it is replaced
replaceable(p) ==
    /\ p.ticket \notin rms.seen
    /\ ~(p.magic = MAGIC \/ startswith(p.comment, COMMENT_PREFIX))
    /\ allowed_symbol(p.symbol)

\* The body of main's loop for one position of the snapshot: open_replacement
\* in the configured sequence, then seen.add.  ok1 and ok2 are the venue's
\* answers to the first and the second order_send.
Replace ==
    /\ ~control_pause_active
    /\ \E i \in DOMAIN positions, ok1 \in BOOLEAN, ok2 \in BOOLEAN :
          LET p == positions[i]
              plan == replacement_plan(p)
              open == deal_request(p.symbol, plan.type, plan.lots, plan.sl, plan.tp,
                                   <<COMMENT_PREFIX, "inv=YES">>)
              close == close_request(p)
              t == venue.next_ticket
              first == IF REPLACE_SEQUENCE = "CLOSE_THEN_OPEN" THEN close ELSE open
              second == IF REPLACE_SEQUENCE = "CLOSE_THEN_OPEN" THEN open ELSE close
              \* without symbol info or tick open_replacement returns at once;
              \* in a dry run nothing is sent and every deal reports success
              sends == IF ~venue.tick \/ DRY_RUN THEN <<>>
                       ELSE IF ~ok1 THEN <<first>>
                       ELSE <<first, second>>
              fills == IF ~venue.tick \/ DRY_RUN THEN <<>>
                       ELSE IF ~ok1 THEN <<>>
                       ELSE IF ~ok2 THEN <<filled(first, t)>>
                       ELSE <<filled(first, t), filled(second, t + 1)>>
          IN  /\ replaceable(p)
              /\ t + 1 <= MaxVenueTicket
              /\ positions' = positions \o fills
              /\ venue' = [venue EXCEPT !.next_ticket = t + Len(fills)]
              /\ rms' = [rms EXCEPT !.seen = @ \cup {p.ticket},
                                    !.attempts = Append(@, p.ticket),
                                    !.sent = @ \o sends]
    /\ UNCHANGED <<mirror, copier, alive, cfg, info, acct, mkt, day_state, now_cest,
                   inbox, ev, MASTER2FOLLOW, ticked, log, hist, roll>>

\* the user opens a manual position from the phone: on the traded symbol, or
\* a tiny one on the control symbol to pause the program
ManualPosition(t, sym, ty, sl, tp) ==
    [ticket |-> t, symbol |-> sym, type |-> ty, volume |-> 5, price_open |-> 5000,
     sl |-> sl, tp |-> tp, comment |-> <<>>, magic |-> 0, profit |-> 0,
     today |-> TRUE]

ManualStops == {<<"BUY", 0, 0>>, <<"BUY", 4000, 0>>, <<"BUY", 4000, 5300>>,
                <<"SELL", 5400, 4990>>}

ManualOpen ==
    /\ venue.next_ticket <= MaxVenueTicket
    /\ Cardinality({i \in DOMAIN positions : positions[i].magic = 0}) < MaxManual
    /\ \E m \in {<<"XAUUSD", "SELL", 5400, 4990>>, <<"XAUUSD", "BUY", 0, 0>>,
                 <<CONTROL_SYMBOL, "BUY", 0, 0>>} :
          positions' = Append(positions,
                              ManualPosition(venue.next_ticket, m[1], m[2], m[3], m[4]))
    /\ venue' = [venue EXCEPT !.next_ticket = @ + 1]
    /\ UNCHANGED <<rms, mirror, copier, alive, cfg, info, acct, mkt, day_state,
                   now_cest, inbox, ev, MASTER2FOLLOW, ticked, log, hist, roll>>

\* the user closes the control position to resume
ControlClose ==
    /\ control_pause_active
    /\ positions' = SelectSeq(positions, LAMBDA q : q.symbol # CONTROL_SYMBOL)
    /\ UNCHANGED <<rms, mirror, copier, venue, alive, cfg, info, acct, mkt, day_state,
                   now_cest, inbox, ev, MASTER2FOLLOW, ticked, log, hist, roll>>

RmsConfigs ==
    {[REPLACE_SEQUENCE |-> seq, CAP_TO_DAILY |-> cap, DRY_RUN |-> dry] :
        seq \in {"OPEN_THEN_CLOSE", "CLOSE_THEN_OPEN"}, cap \in BOOLEAN,
        dry \in BOOLEAN}

\* XAUUSD: 1 USD per point per lot, volumes 0.01 .. 5.00 in steps of 0.01,
\* with and without a minimal stop distance of 800 points
RmsInfos ==
    {[trade_tick_value |-> 1, trade_tick_size |-> 1, trade_contract_size |-> 100,
      volume_min |-> 1, volume_max |-> 500, volume_step |-> 1,
      trade_stops_level |-> lv, freeze_level |-> 0] : lv \in {0, 800}}

\* equity 1000 USD; nothing lost today, 30 USD lost (budget left 21.50) or
\* 60 USD lost (more than 5% of the 1060 of the morning: no budget left)
RmsAccounts ==
    {[equity |-> 100000, realized_today |-> r] : r \in {0, -3000, -6000}}

\* a position of the program itself, open from an earlier run
RmsOwn ==
    [ManualPosition(2, "XAUUSD", "SELL", 5700, 4300) EXCEPT
        !.magic = MAGIC, !.comment = <<COMMENT_PREFIX, "inv=YES">>]

InitRms ==
    /\ cfg \in RmsConfigs
    /\ info \in RmsInfos
    /\ acct \in RmsAccounts
    /\ mkt = [bid |-> 5000, ask |-> 5000, atr_pts |-> 0, bars |-> 0]
    /\ \E st \in ManualStops :
          positions \in {<<ManualPosition(1, "XAUUSD", st[1], st[2], st[3])>>,
                         <<ManualPosition(1, "XAUUSD", st[1], st[2], st[3]), RmsOwn>>}
    /\ venue = [account |-> TRUE, tick |-> TRUE, sltp |-> TRUE, next_ticket |-> 3]
    /\ rms = NoRms
    /\ mirror = NoMirror /\ copier = NoCopier
    /\ alive = AllAlive
    /\ day_state = NoDay
    /\ now_cest = Clock(12, 30)
    /\ inbox = <<>>
    /\ ev = IdleEv
    /\ MASTER2FOLLOW = [t \in MasterTickets |-> 0]
    /\ ticked = FALSE
    /\ log = <<>>
    /\ hist = [t \in 1..MaxTickets |-> NoHist]
    /\ roll = NoRoll

NextRms == Replace \/ ManualOpen \/ ControlClose

SpecRms == InitRms /\ [][NextRms]_vars

\* ------------------------------------------------------------------ one_day_sim_no_offset.py
\* A third program, the mirror bot: it opens an opposite position (a mirror)
\* for each manual position (a master) and, in replace mode, closes the
\* master.  It runs against the same venue; the levels None are carried as 0,
\* float("inf") as Inf.  The toggle file is absent and SYMBOL_ALLOWLIST empty.

Inf == 1000000000

ALLOW_TRADING == cfg.ALLOW_TRADING

REPLACE_MASTER == cfg.REPLACE_MASTER

MIRROR_MULTIPLIER == 1

MIRROR_RISK_PER_TRADE == cfg.MIRROR_RISK_PER_TRADE

USE_MASTER_SL_AS_TP == TRUE

USE_MASTER_TP_AS_SL == TRUE

APPLY_SAFETY_SL_TO_MASTER == TRUE

MASTER_SAFETY_SL_POINTS == 2000

DEFAULT_MIRROR_SL_POINTS == 1500

STOPDIST_BUFFER_POINTS == 80

MAX_SPREAD_POINTS == 300

ATR_SL_MULT == 2

RR_TP_MULT == 3

MIN_SL_POINTS == 200

MAX_SL_POINTS == 10000

DAILY_DRAWDOWN_LIMIT == cfg.DAILY_DRAWDOWN_LIMIT

ABS_MAX_DRAWDOWN == cfg.ABS_MAX_DRAWDOWN

COUNT_FLOATING_IN_LOSS == TRUE

FLATTEN_ON_BREACH == cfg.FLATTEN_ON_BREACH

HALT_ON_BREACH == cfg.HALT_ON_BREACH

PANIC_FLATTEN_MANUAL == TRUE

trading_enabled_now == ALLOW_TRADING

mirror_side(side) == IF side = "BUY" THEN "SELL" ELSE "BUY"

is_manual(p) == p.magic = 0

mirror_comment(master_ticket) == <<"mirror", master_ticket>>

is_mirror(p) == p.magic = MAGIC /\ Len(p.comment) = 2 /\ p.comment[1] = "mirror"

\* the tickets of index_manual_positions
masters == {positions[i].ticket : i \in {j \in DOMAIN positions : is_manual(positions[j])}}

\* the links of index_mirror_positions
mirrors == {positions[i].comment[2] : i \in {j \in DOMAIN positions : is_mirror(positions[j])}}

position_of(ticket) ==
    positions[CHOOSE i \in DOMAIN positions : positions[i].ticket = ticket]

\* out[link] = p keeps the last position that carries the link
mirror_of(link) ==
    LET at == {i \in DOMAIN positions :
                  is_mirror(positions[i]) /\ positions[i].comment[2] = link}
    IN  positions[CHOOSE i \in at : \A j \in at : j <= i]

min_stop_points == info.trade_stops_level + STOPDIST_BUFFER_POINTS

clamp_sl_tp_for_side(side, price, sl, tp) ==
    LET need == min_stop_points
    IN  IF side = "BUY"
        THEN [sl |-> IF sl # 0 /\ ~(sl < price - need) THEN 0 ELSE sl,
              tp |-> IF tp # 0 /\ ~(tp > price + need) THEN 0 ELSE tp]
        ELSE [sl |-> IF sl # 0 /\ ~(sl > price + need) THEN 0 ELSE sl,
              tp |-> IF tp # 0 /\ ~(tp < price - need) THEN 0 ELSE tp]

\* None (0) without enough bars
calc_atr_points == IF mkt.bars < ATR_PERIOD + 1 THEN 0 ELSE mkt.atr_pts

order_value_per_point_per_lot == IF ~venue.tick THEN 0 ELSE Abs(info.vpp)

\* vol = n / d lots
round_volume(n, d) ==
    LET step == info.volume_step
        steps == n \div (d * step)
    IN  Max(info.volume_min, Min(info.volume_max, steps * step))

safety_level_from_points(side, ref_price, points, level_type) ==
    IF points <= 0 THEN 0
    ELSE IF side = "BUY"
         THEN (IF level_type = "SL" THEN ref_price - points ELSE ref_price + points)
         ELSE (IF level_type = "SL" THEN ref_price + points ELSE ref_price - points)

dynamic_sl_tp_points ==
    LET atr_pts == calc_atr_points
        dyn == IF atr_pts # 0
               THEN Max(MIN_SL_POINTS, Min(MAX_SL_POINTS, atr_pts * ATR_SL_MULT))
               ELSE 0
        sl_pts == IF dyn <= 0
                  THEN (IF DEFAULT_MIRROR_SL_POINTS > 0 THEN DEFAULT_MIRROR_SL_POINTS
                        ELSE MIN_SL_POINTS)
                  ELSE dyn
    IN  [sl |-> sl_pts, tp |-> Max(0, sl_pts * RR_TP_MULT)]

build_mirror_plan(master, mirror_side_str, entry_price) ==
    LET mapped_tp == IF USE_MASTER_SL_AS_TP /\ master.sl > 0 THEN master.sl ELSE 0
        mapped_sl == IF USE_MASTER_TP_AS_SL /\ master.tp > 0 THEN master.tp ELSE 0
        dyn == dynamic_sl_tp_points
        desired_sl == IF mapped_sl # 0 THEN mapped_sl
                      ELSE safety_level_from_points(mirror_side_str, entry_price, dyn.sl, "SL")
        desired_tp == IF mapped_tp # 0 THEN mapped_tp
                      ELSE safety_level_from_points(mirror_side_str, entry_price, dyn.tp, "TP")
        c == clamp_sl_tp_for_side(mirror_side_str, entry_price, desired_sl, desired_tp)
        vpppl == order_value_per_point_per_lot
        sl_points == Abs(entry_price - c.sl)
        risk_per_lot == vpppl * sl_points
        sized == MIRROR_RISK_PER_TRADE > 0 /\ vpppl # 0 /\ c.sl # 0 /\ risk_per_lot > 0
    IN  [sl |-> c.sl, tp |-> c.tp,
         vol |-> IF sized THEN round_volume(MIRROR_RISK_PER_TRADE, risk_per_lot)
                 ELSE round_volume(master.volume * MIRROR_MULTIPLIER, 1)]

\* realized and floating result of the program's own deals and positions
sum_bot_realized_today == acct.realized_today

RECURSIVE sum_bot_profit(_)
sum_bot_profit(ps) ==
    IF ps = <<>> THEN 0
    ELSE (IF Head(ps).magic = MAGIC THEN Head(ps).profit ELSE 0) + sum_bot_profit(Tail(ps))

sum_bot_floating_now == sum_bot_profit(positions)

new_day == mirror.last_day # now_cest.date_key

\* the three globals after reset_day_if_needed
reset_day_if_needed ==
    IF new_day
    THEN [mirror EXCEPT !.today_start = acct.equity, !.last_day = now_cest.date_key,
                        !.hard_stop = FALSE]
    ELSE mirror

loss_today ==
    -Min(0, sum_bot_realized_today + (IF COUNT_FLOATING_IN_LOSS THEN sum_bot_floating_now ELSE 0))

\* current_limits_state after the reset: is a limit breached
breach_of(mi) ==
    LET dd_today == Max(0, mi.today_start - acct.equity)
        dd_abs == Max(0, mi.session_start - acct.equity)
        loss_limit == IF DAILY_LOSS_LIMIT > 0 THEN DAILY_LOSS_LIMIT ELSE Inf
        dd_limit == IF DAILY_DRAWDOWN_LIMIT > 0 THEN DAILY_DRAWDOWN_LIMIT ELSE Inf
    IN  \/ loss_limit < Inf /\ loss_today >= loss_limit
        \/ dd_limit < Inf /\ dd_today >= dd_limit
        \/ ABS_MAX_DRAWDOWN > 0 /\ dd_abs >= ABS_MAX_DRAWDOWN

remaining_daily_risk_budget ==
    LET mi == reset_day_if_needed
        dd_today == Max(0, mi.today_start - acct.equity)
        by_loss == IF DAILY_LOSS_LIMIT > 0 THEN Max(0, DAILY_LOSS_LIMIT - loss_today) ELSE Inf
        by_dd == IF DAILY_DRAWDOWN_LIMIT > 0 THEN Max(0, DAILY_DRAWDOWN_LIMIT - dd_today)
                 ELSE Inf
    IN  Min(by_loss, by_dd)

\* a request as the history keeps it: what it does, on which ticket or link,
\* its volume, the venue's answer and _HARD_STOP_ON when it was sent
Sent(kind, ticket, volume, ok, hard) ==
    [kind |-> kind, ticket |-> ticket, volume |-> volume, ok |-> ok, hard |-> hard]

\* the position a filled open_order leaves on the account
mirror_position(t, symbol, side, volume, link_ticket, sl, tp) ==
    [ticket |-> t, symbol |-> symbol, type |-> side, volume |-> volume,
     price_open |-> IF side = "BUY" THEN mkt.ask ELSE mkt.bid, sl |-> sl, tp |-> tp,
     comment |-> mirror_comment(link_ticket), magic |-> MAGIC, profit |-> 0,
     today |-> TRUE]

\* flatten_all: close_position for each of the positions it selects; the
\* venue closes the ones in done
flatten_all(mirror_only, done, hard) ==
    LET sel(q) == ~mirror_only \/ q.magic = MAGIC
        to_close == SelectSeq(positions, sel)
    IN  [positions |-> SelectSeq(positions, LAMBDA q : ~(sel(q) /\ q.ticket \in done)),
         sent |-> [k \in DOMAIN to_close |->
                      Sent("close", to_close[k].ticket, to_close[k].volume,
                           to_close[k].ticket \in done, hard)]]

Tickets == {positions[i].ticket : i \in DOMAIN positions}

\* main, panic kill: the file says KILL
PanicKill ==
    /\ mirror.panic
    /\ \E done \in SUBSET Tickets :
          LET f == IF trading_enabled_now
                   THEN flatten_all(~PANIC_FLATTEN_MANUAL, done, mirror.hard_stop)
                   ELSE [positions |-> positions, sent |-> <<>>]
          IN  /\ positions' = f.positions
              /\ mirror' = [mirror EXCEPT !.hard_stop = TRUE, !.sent = f.sent]
    /\ UNCHANGED <<rms, copier, venue, alive, cfg, info, acct, mkt, day_state, now_cest,
                   inbox, ev, MASTER2FOLLOW, ticked, log, hist, roll>>

\* main, risk gate: current_limits_state with its day reset, then the hard
\* stop on a breach
RiskGate ==
    /\ ~mirror.panic
    /\ venue.account
    /\ \E done \in SUBSET Tickets :
          LET mi == reset_day_if_needed
              stop == breach_of(mi) /\ ~mi.hard_stop
              f == IF stop /\ FLATTEN_ON_BREACH /\ trading_enabled_now
                   THEN flatten_all(TRUE, done, mi.hard_stop)
                   ELSE [positions |-> positions, sent |-> <<>>]
          IN  /\ positions' = f.positions
              /\ mirror' = [mi EXCEPT !.hard_stop = @ \/ stop, !.sent = f.sent]
    /\ UNCHANGED <<rms, copier, venue, alive, cfg, info, acct, mkt, day_state, now_cest,
                   inbox, ev, MASTER2FOLLOW, ticked, log, hist, roll>>

\* the loop goes on to the normal part: no panic, and the gate of this
\* iteration has run (no day change or new breach is pending)
halted == mirror.hard_stop /\ HALT_ON_BREACH

normal_loop ==
    /\ ~mirror.panic
    /\ venue.account
    /\ ~new_day
    /\ ~(breach_of(mirror) /\ ~mirror.hard_stop)
    /\ ~halted

\* in replace mode the second step is taken when the first one returned a
\* result
second_step_always(first_ok) == TRUE

second_step(first_ok) == first_ok

\* what handle_new_manual computes before the replace logic
mirror_plan(master) ==
    LET side == master.type
        opp == mirror_side(side)
        price == IF opp = "BUY" THEN mkt.ask ELSE mkt.bid
        plan == build_mirror_plan(master, opp, price)
        vpppl == order_value_per_point_per_lot
        sl_points == Abs(price - plan.sl)
        planned_risk == vpppl * sl_points * Max(plan.vol, 0)
        remaining == remaining_daily_risk_budget
        scaled == MIRROR_RISK_PER_TRADE > 0 /\ vpppl # 0 /\ plan.sl # 0
                      /\ planned_risk > remaining /\ remaining > 0
    IN  [side |-> opp, sl |-> plan.sl, tp |-> plan.tp,
         vol |-> IF scaled THEN round_volume(plan.vol * remaining, planned_risk)
                 ELSE plan.vol]

\* set_master_safety_sl_if_needed: the stop it asks for, 0 for none
master_safety_sl(master) ==
    IF ~APPLY_SAFETY_SL_TO_MASTER \/ master.sl > 0 \/ ~venue.tick THEN 0
    ELSE LET side == master.type
             ref == IF side = "BUY" THEN mkt.bid ELSE mkt.ask
             vpppl == order_value_per_point_per_lot
             sl_pts_plan == IF MASTER_SAFETY_SL_POINTS > 0 THEN MASTER_SAFETY_SL_POINTS
                            ELSE dynamic_sl_tp_points.sl
             sl_price == safety_level_from_points(side, ref, sl_pts_plan, "SL")
         IN  clamp_sl_tp_for_side(side, ref, sl_price, 0).sl

\* main, normal loop, a new master: handle_new_manual, then seen.add.  okm,
\* ok1 and ok2 are the venue's answers to the requests in the order sent.
HandleNewManual ==
    /\ normal_loop
    /\ venue.next_ticket <= MaxVenueTicket
    /\ \E ticket \in masters \ (mirrors \cup mirror.seen),
          okm \in BOOLEAN, ok1 \in BOOLEAN, ok2 \in BOOLEAN :
          LET master == position_of(ticket)
              hard == mirror.hard_stop
              skip == hard \/ info.spread > MAX_SPREAD_POINTS
              safety == IF REPLACE_MASTER THEN 0 ELSE master_safety_sl(master)
              sltp == IF safety # 0 /\ trading_enabled_now
                      THEN <<Sent("sltp", ticket, 0, okm, hard)>> ELSE <<>>
              plan == mirror_plan(master)
              t == venue.next_ticket
              can_send == venue.tick /\ trading_enabled_now
              opened == mirror_position(t, master.symbol, plan.side, plan.vol, ticket,
                                        plan.sl, plan.tp)
              open(ok) == Sent("open", ticket, plan.vol, ok, hard)
              close(ok) == Sent("close", ticket, master.volume, ok, hard)
              mirror_first == ~REPLACE_MASTER \/ REPLACE_SEQUENCE = "MIRROR_THEN_CLOSE"
              do_open == can_send /\ (mirror_first \/ second_step(ok1))
              do_close == /\ can_send /\ REPLACE_MASTER
                          /\ (~mirror_first \/ second_step(ok1))
              open_ok == IF mirror_first THEN ok1 ELSE ok2
              close_ok == IF mirror_first THEN ok2 ELSE ok1
              requests == IF mirror_first
                          THEN (IF do_open THEN <<open(open_ok)>> ELSE <<>>)
                                   \o (IF do_close THEN <<close(close_ok)>> ELSE <<>>)
                          ELSE (IF do_close THEN <<close(close_ok)>> ELSE <<>>)
                                   \o (IF do_open THEN <<open(open_ok)>> ELSE <<>>)
              kept == SelectSeq(positions,
                                LAMBDA q : ~(do_close /\ close_ok /\ q.ticket = ticket))
              stopped == [k \in DOMAIN kept |->
                             IF kept[k].ticket = ticket /\ sltp # <<>> /\ okm
                             THEN [kept[k] EXCEPT !.sl = safety] ELSE kept[k]]
          IN  IF skip
              THEN /\ mirror' = [mirror EXCEPT !.seen = @ \cup {ticket}, !.sent = <<>>]
                   /\ UNCHANGED <<positions, venue>>
              ELSE /\ positions' = stopped \o (IF do_open /\ open_ok THEN <<opened>>
                                               ELSE <<>>)
                   /\ venue' = [venue EXCEPT !.next_ticket =
                                    IF do_open /\ open_ok THEN t + 1 ELSE t]
                   /\ mirror' = [mirror EXCEPT !.seen = @ \cup {ticket},
                                               !.sent = sltp \o requests]
    /\ UNCHANGED <<rms, copier, alive, cfg, info, acct, mkt, day_state, now_cest,
                   inbox, ev, MASTER2FOLLOW, ticked, log, hist, roll>>

\* main, normal loop, a master that has a mirror: adjust_volume_if_needed
AdjustVolume ==
    /\ normal_loop
    /\ venue.next_ticket <= MaxVenueTicket
    /\ MIRROR_RISK_PER_TRADE <= 0
    /\ acct.margin_mode = 2
    /\ \E ticket \in masters \cap mirrors, ok \in BOOLEAN :
          LET master == position_of(ticket)
              mir == mirror_of(ticket)
              desired == master.volume * MIRROR_MULTIPLIER
              diff == desired - mir.volume
              t == venue.next_ticket
              hard == mirror.hard_stop
              can_send == trading_enabled_now /\ (diff < 0 \/ venue.tick)
          IN  /\ Abs(diff) >= info.volume_step
              /\ can_send
              /\ mirror' = [mirror EXCEPT !.sent =
                               <<Sent(IF diff > 0 THEN "open" ELSE "partial",
                                      ticket, Abs(diff), ok, hard)>>]
              /\ IF ~ok THEN UNCHANGED <<positions, venue>>
                 ELSE IF diff > 0
                 THEN /\ positions' = Append(positions,
                                             mirror_position(t, mir.symbol, mir.type, diff,
                                                             ticket, 0, 0))
                      /\ venue' = [venue EXCEPT !.next_ticket = t + 1]
                 ELSE /\ positions' =
                            SelectSeq([k \in DOMAIN positions |->
                                          IF positions[k].ticket = mir.ticket
                                          THEN [positions[k] EXCEPT !.volume = @ + diff]
                                          ELSE positions[k]],
                                      LAMBDA q : q.volume > 0)
                      /\ UNCHANGED venue
    /\ UNCHANGED <<rms, copier, alive, cfg, info, acct, mkt, day_state, now_cest,
                   inbox, ev, MASTER2FOLLOW, ticked, log, hist, roll>>

\* main, the halted and the normal loop alike when the master is not
\* replaced: close the mirror whose master is gone
CloseMirror ==
    /\ ~mirror.panic /\ venue.account /\ ~new_day
    /\ ~(breach_of(mirror) /\ ~mirror.hard_stop)
    /\ ~REPLACE_MASTER
    /\ trading_enabled_now /\ venue.tick
    /\ \E link \in mirrors \ masters, ok \in BOOLEAN :
          LET mir == mirror_of(link)
          IN  /\ mirror' = [mirror EXCEPT !.sent =
                               <<Sent("close", mir.ticket, mir.volume, ok,
                                      mirror.hard_stop)>>]
              /\ positions' = IF ok
                              THEN SelectSeq(positions, LAMBDA q : q.ticket # mir.ticket)
                              ELSE positions
    /\ UNCHANGED <<rms, copier, venue, alive, cfg, info, acct, mkt, day_state, now_cest,
                   inbox, ev, MASTER2FOLLOW, ticked, log, hist, roll>>

\* the user, from the phone: closes half of a position (a master or a
\* mirror) or all of a master
UserClose ==
    /\ \E i \in DOMAIN positions, part \in BOOLEAN :
          /\ IF part THEN positions[i].volume >= 5 ELSE is_manual(positions[i])
          /\ positions' =
                 IF part
                 THEN [positions EXCEPT ![i].volume = positions[i].volume \div 2]
                 ELSE SelectSeq(positions, LAMBDA q : q.ticket # positions[i].ticket)
    /\ mirror' = [mirror EXCEPT !.sent = <<>>]
    /\ UNCHANGED <<rms, copier, venue, alive, cfg, info, acct, mkt, day_state,
                   now_cest, inbox, ev, MASTER2FOLLOW, ticked, log, hist, roll>>

\* equity 1000 USD at the start, and 60 USD under it
MirrorEquities == {94000, 100000}

MirrorEquityMove ==
    /\ \E e \in MirrorEquities \ {acct.equity} : acct' = [acct EXCEPT !.equity = e]
    /\ mirror' = [mirror EXCEPT !.sent = <<>>]
    /\ UNCHANGED <<rms, copier, venue, alive, cfg, info, mkt, positions,
                   day_state, inbox, now_cest, ev, MASTER2FOLLOW, ticked, log, hist, roll>>

\* midnight passes
MirrorNewDay ==
    /\ now_cest.date_key < MaxDate
    /\ now_cest' = [now_cest EXCEPT !.date_key = @ + 1]
    /\ mirror' = [mirror EXCEPT !.sent = <<>>]
    /\ UNCHANGED <<rms, copier, venue, alive, cfg, info, acct, mkt, positions,
                   day_state, inbox, ev, MASTER2FOLLOW, ticked, log, hist, roll>>

\* the user writes KILL to the panic file, or removes it
PanicFile ==
    /\ mirror' = [mirror EXCEPT !.panic = ~@, !.sent = <<>>]
    /\ UNCHANGED <<rms, copier, venue, alive, cfg, info, acct, mkt, positions,
                   day_state, now_cest, inbox, ev, MASTER2FOLLOW, ticked, log, hist, roll>>

\* daily drawdown limit 50 USD; trading allowed
MirrorConfigs ==
    {c \in [ALLOW_TRADING : {TRUE}, REPLACE_MASTER : BOOLEAN,
            REPLACE_SEQUENCE : {"MIRROR_THEN_CLOSE", "CLOSE_THEN_MIRROR"},
            MIRROR_RISK_PER_TRADE : {0, 1500}, DAILY_LOSS_LIMIT : {0},
            DAILY_DRAWDOWN_LIMIT : {5000}, ABS_MAX_DRAWDOWN : {0},
            FLATTEN_ON_BREACH : BOOLEAN, HALT_ON_BREACH : BOOLEAN] :
        c.REPLACE_MASTER \/ c.REPLACE_SEQUENCE = "MIRROR_THEN_CLOSE"}

MirrorInfo ==
    [vpp |-> 1, spread |-> 20, volume_min |-> 1, volume_max |-> 500, volume_step |-> 1,
     trade_stops_level |-> 0, freeze_level |-> 0]

InitMirror ==
    /\ cfg \in MirrorConfigs
    /\ info = MirrorInfo
    /\ acct = [equity |-> 100000, realized_today |-> 0, margin_mode |-> 2]
    /\ mkt = [bid |-> 5000, ask |-> 5000, atr_pts |-> 0, bars |-> 0]
    /\ positions \in {<<ManualPosition(1, "XAUUSD", "BUY", 0, 0)>>,
                      <<[ManualPosition(1, "XAUUSD", "SELL", 5400, 4990) EXCEPT
                            !.volume = 8]>>}
    /\ venue = [account |-> TRUE, tick |-> TRUE, sltp |-> TRUE, next_ticket |-> 6]
    /\ now_cest = Clock(12, 30)
    /\ mirror = [NoMirror EXCEPT !.last_day = now_cest.date_key,
                                 !.today_start = acct.equity,
                                 !.session_start = acct.equity]
    /\ rms = NoRms /\ copier = NoCopier
    /\ alive = AllAlive
    /\ day_state = NoDay
    /\ inbox = <<>>
    /\ ev = IdleEv
    /\ MASTER2FOLLOW = [t \in MasterTickets |-> 0]
    /\ ticked = FALSE
    /\ log = <<>>
    /\ hist = [t \in 1..MaxTickets |-> NoHist]
    /\ roll = NoRoll

NextMirror ==
    \/ PanicKill \/ RiskGate \/ HandleNewManual \/ AdjustVolume \/ CloseMirror
    \/ UserClose \/ MirrorEquityMove \/ MirrorNewDay \/ PanicFile

SpecMirror == InitMirror /\ [][NextMirror]_vars

\* ------------------------------------------------------------------ risk_engine_sim.py
\* The simulation engine takes the equity as an argument and reads the same
\* environment constants as the live engine; it has no DAILY_LOSS_PCT.

\* compute_allowed_risk_usd of the simulation with base taken from the equity
sim_compute_allowed_risk_usd_base_on_equity(equity, ds) ==
    LET used      == Max(0, ds.start_equity - equity)
        rem_daily == Max(0, DAILY_LOSS_LIMIT - used)
        rem_over  == Max(0, equity - OVERALL_EQUITY_FLOOR)
        base      == (BASE_RISK_PCT * equity) \div 1000
    IN  Max(0, Min(base, Min((MDL_FRACTION_PER_TRADE * rem_daily) \div 100,
                             (OVR_FRACTION_PER_TRADE * rem_over) \div 100)))

\* compute_allowed_risk_usd(equity, day_state) of the simulation
sim_compute_allowed_risk_usd(equity, ds) ==
    LET used      == Max(0, ds.start_equity - equity)
        rem_daily == Max(0, DAILY_LOSS_LIMIT - used)
        rem_over  == Max(0, equity - OVERALL_EQUITY_FLOOR)
        base      == (BASE_RISK_PCT * INITIAL_BALANCE) \div 1000
    IN  Max(0, Min(base, Min((MDL_FRACTION_PER_TRADE * rem_daily) \div 100,
                             (OVR_FRACTION_PER_TRADE * rem_over) \div 100)))

\* ------------------------------------------------------------------ trade_copier.py
\* A fourth program, the trade copier: it polls the positions of a master
\* account (venue.master) and opens, for each master ticket it has not
\* mapped in self.state, a risk-sized position on the slave account (info,
\* acct, mkt, positions).  cfg is the Config read from config.json.

\* volume = n / d, in units of 0.01 lot
normalize_lot(n, d) ==
    IF n <= 0 THEN 0
    ELSE LET min_lot == cfg.risk.min_lot
             steps == (n - min_lot * d) \div (d * cfg.risk.lot_step)
             vol == min_lot + Max(0, steps) * cfg.risk.lot_step
         IN  Min(Max(vol, min_lot), cfg.risk.max_lot)

value_per_point_per_lot ==
    IF info.tick_size = 0 THEN 0 ELSE info.tick_value \div info.tick_size

compute_risk_based_lot(sl_points, equity) ==
    LET vpppl == value_per_point_per_lot
    IN  IF vpppl <= 0 \/ sl_points <= 0 THEN 0
        ELSE normalize_lot(equity * cfg.risk.risk_percent, 100 * sl_points * vpppl)

\* open_slave_position up to its request: skip when it returns None before
\* order_send
slave_request(mpos) ==
    LET no_sl == mpos.sl = 0
        sl_points == IF no_sl THEN cfg.risk.default_sl_points
                     ELSE Abs(mpos.price_open - mpos.sl)
        lot == compute_risk_based_lot(sl_points, IF venue.account THEN acct.equity ELSE 0)
        is_buy == mpos.type = "BUY"
        price == IF is_buy THEN mkt.ask ELSE mkt.bid
        stops_level == info.trade_stops_level
        sl == IF stops_level # 0 /\ mpos.sl # 0
              THEN (IF is_buy /\ mpos.sl > price - stops_level THEN price - (stops_level + 1)
                    ELSE IF ~is_buy /\ mpos.sl < price + stops_level
                    THEN price + (stops_level + 1)
                    ELSE mpos.sl)
              ELSE mpos.sl
    IN  [skip |-> \/ ~venue.account
                  \/ no_sl /\ cfg.risk.skip_if_no_sl
                  \/ lot <= 0
                  \/ ~venue.tick,
         symbol |-> mpos.symbol, type |-> mpos.type, volume |-> lot, price |-> price,
         sl |-> sl, tp |-> mpos.tp, magic |-> cfg.copy.magic,
         comment |-> <<cfg.copy.comment_prefix, mpos.ticket>>]

mapped == DOMAIN copier.state

master_tickets == {mp.ticket : mp \in venue.master}

\* run, OPEN new ones, for one master position that is not in self.state.
\* The venue rejects the order, or fills it; after a fill the query for the
\* new position finds it or does not.
CopierOpen ==
    /\ cfg.copy.copy_open
    /\ venue.next_ticket <= MaxVenueTicket
    /\ \E mpos \in venue.master, res \in {"rejected", "found", "not_found"} :
          LET req == slave_request(mpos)
              t == venue.next_ticket
              slave_ticket == IF res = "found" THEN t ELSE 0
          IN  /\ mpos.ticket \notin mapped
              /\ ~req.skip
              /\ IF res = "rejected" THEN UNCHANGED <<positions, venue>>
                 ELSE /\ positions' = Append(positions, filled(req, t))
                      /\ venue' = [venue EXCEPT !.next_ticket = t + 1]
              /\ copier' = [state |-> IF slave_ticket # 0
                                      THEN copier.state @@ (mpos.ticket :> slave_ticket)
                                      ELSE copier.state,
                            opened |-> IF res = "rejected" THEN copier.opened
                                       ELSE Append(copier.opened, mpos.ticket)]
    /\ UNCHANGED <<rms, mirror, alive, cfg, info, acct, mkt, day_state, now_cest,
                   inbox, ev, MASTER2FOLLOW, ticked, log, hist, roll>>

\* run, CLOSE those that disappeared, for one mapped master ticket
CopierClose ==
    /\ cfg.copy.copy_close
    /\ venue.account
    /\ \E mt \in mapped \ master_tickets, ok \in BOOLEAN :
          LET slave_ticket == copier.state[mt]
              open == \E i \in DOMAIN positions : positions[i].ticket = slave_ticket
              closed == ~open \/ (venue.tick /\ ok)
          IN  /\ closed
              /\ positions' = SelectSeq(positions, LAMBDA q : q.ticket # slave_ticket)
              /\ copier' = [copier EXCEPT !.state = [k \in mapped \ {mt} |-> copier.state[k]]]
    /\ UNCHANGED <<rms, mirror, venue, alive, cfg, info, acct, mkt, day_state, now_cest,
                   inbox, ev, MASTER2FOLLOW, ticked, log, hist, roll>>

\* the trader of the master account opens a position under a fresh ticket,
\* with or without a stop, or closes one
MasterPosition(t, sl) ==
    [ticket |-> t, symbol |-> "XAUUSD", type |-> "BUY", volume |-> 10,
     price_open |-> 5000, sl |-> sl, tp |-> 0]

MasterTrade ==
    /\ \/ \E t \in MasterTickets, sl \in {0, 4000} :
             /\ \A u \in master_tickets \cup mapped : u < t
             /\ \A k \in DOMAIN copier.opened : copier.opened[k] < t
             /\ venue' = [venue EXCEPT !.master = @ \cup {MasterPosition(t, sl)}]
       \/ \E mp \in venue.master : venue' = [venue EXCEPT !.master = @ \ {mp}]
    /\ UNCHANGED <<rms, mirror, copier, alive, cfg, info, acct, mkt, positions, day_state,
                   now_cest, inbox, ev, MASTER2FOLLOW, ticked, log, hist, roll>>

\* risk 1% of equity, lots 0.01 .. 5.00 in steps of 0.01, 1500 points for a
\* master position without stop (or none copied)
CopierConfigs ==
    {[risk |-> [risk_percent |-> 1, min_lot |-> 1, lot_step |-> 1, max_lot |-> 500,
                skip_if_no_sl |-> skip, default_sl_points |-> 1500],
      copy |-> [copy_open |-> TRUE, copy_close |-> cc, magic |-> 778899,
                comment_prefix |-> "copy_"]] : skip \in BOOLEAN, cc \in BOOLEAN}

InitCopier ==
    /\ cfg \in CopierConfigs
    /\ info \in {[tick_value |-> 1, tick_size |-> 1, trade_stops_level |-> lv]
                    : lv \in {0, 1200}}
    /\ acct = [equity |-> 100000]
    /\ mkt = [bid |-> 5000, ask |-> 5000, atr_pts |-> 0, bars |-> 0]
    /\ positions = <<>>
    /\ venue \in {[account |-> TRUE, tick |-> TRUE, sltp |-> TRUE, next_ticket |-> 5,
                   master |-> ms] : ms \in {{}, {MasterPosition(101, 4000)}}}
    /\ copier = NoCopier
    /\ rms = NoRms /\ mirror = NoMirror
    /\ alive = AllAlive
    /\ day_state = NoDay
    /\ now_cest = Clock(12, 30)
    /\ inbox = <<>>
    /\ ev = IdleEv
    /\ MASTER2FOLLOW = [t \in MasterTickets |-> 0]
    /\ ticked = FALSE
    /\ log = <<>>
    /\ hist = [t \in 1..MaxTickets |-> NoHist]
    /\ roll = NoRoll

NextCopier == CopierOpen \/ CopierClose \/ MasterTrade

SpecCopier == InitCopier /\ [][NextCopier]_vars

\* ------------------------------------------------------------------ claims on the proposal path

\* every OPEN handled so far, the one whose request is about to be sent included
Handled == log \o (IF ev.pc = "send" THEN <<Outcome(ev, "pending", 0)>> ELSE <<>>)

\* whether prepare_copy_trade returned an order request for the handled OPEN o
Returned(o) == o.pc \in {"pending", "filled", "venue_rejected"}

\* the risk of o at q lot units, as prepare_copy_trade computes add_risk
RiskAt(o, q) == q * o.sl_points * value_per_point

\* C1: the risk of every order request prepare_copy_trade returns
\* (lots x sl_points x value per point) is at most the allowed risk of the
\* proposal, compute_allowed_risk_usd() times the regime multiplier
C1_RiskWithinAllowed ==
    \A i \in DOMAIN Handled :
        Returned(Handled[i]) =>
            RiskAt(Handled[i], Handled[i].lots) * 10
                <= Handled[i].allowed * Handled[i].mult

\* whether open risk `open` plus `risk` is within the open-risk fraction of the
\* remaining daily budget `rem`
WithinOpenCap(open, risk, rem) ==
    (open + risk) * 100 <= OPEN_RISK_FRACTION_OF_DAILY * rem

\* C2: a proposal passes the open-risk cap at its full sized quantity exactly
\* when open risk plus its risk is within OPEN_RISK_FRACTION_OF_DAILY of the
\* remaining daily budget at the check, and every returned request is within
\* it for its final quantity
C2_AdmittedIffWithinCap ==
    /\ \A i \in DOMAIN Handled :
          LET o == Handled[i]
          IN  Returned(o) =>
                /\ WithinOpenCap(o.ok_open, RiskAt(o, o.lots), o.ok_rem)
                /\ WithinOpenCap(o.ok_open, RiskAt(o, o.cap_lots), o.ok_rem)
                /\ WithinOpenCap(o.first_open, RiskAt(o, o.sized), o.first_rem)
                      => o.cap_lots = o.sized
                /\ o.cap_lots <= o.sized
    /\ ev.pc = "shrink" =>
          ~WithinOpenCap(ev.first_open, RiskAt(ev, ev.sized), ev.first_rem)

\* C2's case: one request returned at its full size and one shrunk by the cap
C2_Witness ==
    /\ \E i \in DOMAIN Handled :
          Returned(Handled[i]) /\ Handled[i].cap_lots = Handled[i].sized
    /\ \E i \in DOMAIN Handled :
          /\ Returned(Handled[i])
          /\ Handled[i].cap_lots < Handled[i].sized
          /\ Handled[i].first_open > 0

\* C4: the shrink loop lowers the quantity in LOT_STEP steps, not below
\* MIN_LOT, and ends: after k failed passes the loop is still running only
\* if sized - k x LOT_STEP is a quantity >= MIN_LOT left to try
C4_ShrinkLoopEnds ==
    ev.pc = "shrink" =>
        /\ ev.fit_lots >= MIN_LOT
        /\ ev.sized - ev.iters * LOT_STEP >= MIN_LOT

\* C10: every position opened through on_open is evaluated by
\* manage_positions_loop on the management ticks that find it open
C10_EventPositionsManaged ==
    \A i \in DOMAIN log :
        (log[i].pc = "filled" /\ hist[log[i].position].seen)
            => hist[log[i].position].evaluated

\* the request returned for the handled OPEN o carries its full sized quantity
AdmittedFull(o) == Returned(o) /\ o.lots = o.sized

\* the scenario of C3: two OPENs handled, each allowed and sized to a risk of
\* 30 USD, the open-risk limit 50 USD at both first checks, and no open
\* position besides the ones these two opened
C3_Scenario ==
    /\ Len(Handled) = 2
    /\ \A i \in 1..2 :
          /\ Handled[i].sized >= MIN_LOT
          /\ Handled[i].allowed * Handled[i].mult = 3000 * 10
          /\ RiskAt(Handled[i], Handled[i].sized) = 3000
          /\ OPEN_RISK_FRACTION_OF_DAILY * Handled[i].first_rem = 5000 * 100
    /\ \A k \in DOMAIN positions :
          \E i \in DOMAIN log : log[i].position = positions[k].ticket

C3_FirstCounted ==
    /\ Handled[1].pc = "filled"
    /\ Handled[1].lots = Handled[1].sized
    /\ Handled[1].price = Handled[1].m.entry

OutsideEveryWindow(c) ==
    \A kz \in KILLZONES_CEST :
        \/ c.hour * 60 + c.minute < kz[1] * 60 + kz[2]
        \/ c.hour * 60 + c.minute > kz[3] * 60 + kz[4]

\* whether the handled OPEN o met a remaining daily budget of 0, equity at or
\* below the floor, or a closed session
Blocked(o) ==
    \/ o.rem_daily = 0
    \/ o.eq <= OVERALL_EQUITY_FLOOR
    \/ SESSION_FILTER_ON /\ OutsideEveryWindow(o.at)

\* C11: an OPEN handled while the remaining daily budget is 0, or equity is at
\* or below OVERALL_EQUITY_FLOOR, or the session filter is on and the time is
\* outside every window, gets no order request from prepare_copy_trade
C11_BlockedMeansNoOrder ==
    /\ \A i \in DOMAIN log : Blocked(log[i]) => log[i].pc = "none"
    /\ ev.pc # "idle" => ~Blocked(ev)

\* C11's case: an allowed instrument, equity above the floor, the session open,
\* and the remaining daily budget 0: no order request
C11_Witness ==
    \E i \in DOMAIN log :
        /\ log[i].pc = "none"
        /\ log[i].m.symbol \in SYMBOL_ALLOW
        /\ log[i].rem_daily = 0
        /\ log[i].eq > OVERALL_EQUITY_FLOOR
        /\ ~(SESSION_FILTER_ON /\ OutsideEveryWindow(log[i].at))

\* C12: after any sequence of daily_reset_if_needed calls, day_state is the one
\* DayState created on the latest date a call was made on, and its
\* start_equity is the equity read by the first call on that date
C12_StartEquityIsFirstRead ==
    roll.date_key # 0 =>
        /\ day_state.date_key = roll.date_key
        /\ day_state.start_equity = roll.first_equity
        /\ roll.created = 1

\* C12's case: a call on the second date, made after equity moved away from
\* the snapshot of that date, has just returned
C12_Witness ==
    /\ ticked
    /\ roll.date_key = 2
    /\ day_state.date_key = 2
    /\ day_state.start_equity # acct.equity

\* C13: with both threads calling daily_reset_if_needed, the DayState of a date
\* is created once, and its start_equity is the first equity read for that
\* date, whatever the interleaving
C13_DayStateCreatedOnce ==
    /\ roll.created <= 1
    /\ (roll.created >= 1 /\ day_state.date_key = roll.date_key)
          => day_state.start_equity = roll.first_equity

\* the drop of equity since the start of the day, times 10000
UsedToday == Max(0, day_state.start_equity - get_equity) * 10000

\* C14 as stated: remaining_daily_loss() is >= 0 and at most the absolute cap
\* and at most the percent cap times start-of-day equity, whatever the
\* percent cap is
C14_WithinBothCaps ==
    day_state # NoDay =>
        /\ remaining_daily_loss(day_state) >= 0
        /\ remaining_daily_loss(day_state) <= DAILY_LOSS_LIMIT
        /\ remaining_daily_loss(day_state) * 10000
               <= DAILY_LOSS_PCT * day_state.start_equity

\* C14 amended: remaining_daily_loss() is >= 0 and at most the absolute cap,
\* and, when DAILY_LOSS_PCT > 0, at most the percent cap times start-of-day
\* equity, whatever the equity is
C14_WithinConfiguredCaps ==
    day_state # NoDay =>
        /\ remaining_daily_loss(day_state) >= 0
        /\ remaining_daily_loss(day_state) <= DAILY_LOSS_LIMIT
        /\ DAILY_LOSS_PCT > 0 =>
              remaining_daily_loss(day_state) * 10000
                  <= DAILY_LOSS_PCT * day_state.start_equity

\* C14's case: a call made with a percent cap configured and equity above the
\* start-of-day equity finds the whole budget left
C14_Witness ==
    /\ ticked
    /\ DAILY_LOSS_PCT > 0
    /\ day_state # NoDay
    /\ get_equity > day_state.start_equity
    /\ remaining_daily_loss(day_state) > 0

\* C15 as stated: remaining_daily_loss() = max(0, min(absolute cap, percent
\* cap x start equity) - max(0, start equity - equity)) for all caps
C15_FormulaForAllCaps ==
    day_state # NoDay =>
        remaining_daily_loss(day_state) * 10000
            = Max(0, Min(DAILY_LOSS_LIMIT * 10000,
                         DAILY_LOSS_PCT * day_state.start_equity) - UsedToday)

\* C15 amended: the same with the percent term present only when
\* DAILY_LOSS_PCT > 0; and absolute cap 500, no percent cap, start equity 10000
\* and equity 9700 give 200
C15_FormulaWithOptionalPercent ==
    day_state # NoDay =>
        /\ remaining_daily_loss(day_state) * 10000
              = Max(0, (IF DAILY_LOSS_PCT > 0
                        THEN Min(DAILY_LOSS_LIMIT * 10000,
                                 DAILY_LOSS_PCT * day_state.start_equity)
                        ELSE DAILY_LOSS_LIMIT * 10000) - UsedToday)
        /\ (/\ DAILY_LOSS_LIMIT = 50000
            /\ DAILY_LOSS_PCT = 0
            /\ day_state.start_equity = 1000000
            /\ get_equity = 970000)
              => remaining_daily_loss(day_state) = 20000

\* C15's case: an OPEN handled with cap 500, no percent cap, start equity 10000
\* and equity 9700 met a remaining daily budget of 200
C15_Witness ==
    /\ DAILY_LOSS_LIMIT = 50000
    /\ DAILY_LOSS_PCT = 0
    /\ day_state.start_equity = 1000000
    /\ get_equity = 970000
    /\ \E i \in DOMAIN log : log[i].eq = 970000 /\ log[i].rem_daily = 20000

\* C16: compute_allowed_risk_usd() = max(0, min(BASE_RISK_PCT x
\* INITIAL_BALANCE, MDL_FRACTION_PER_TRADE x remaining daily,
\* OVR_FRACTION_PER_TRADE x remaining overall)): never above any of the three
\* terms and never negative
C16_AllowedRiskIsMinOfThree ==
    day_state # NoDay =>
        LET allowed == compute_allowed_risk_usd(day_state) * 1000
            base    == BASE_RISK_PCT * INITIAL_BALANCE
            cap_mdl == MDL_FRACTION_PER_TRADE * 10 * remaining_daily_loss(day_state)
            cap_ovr == OVR_FRACTION_PER_TRADE * 10
                           * Max(0, get_equity - OVERALL_EQUITY_FLOOR)
        IN  /\ allowed = Max(0, Min(base, Min(cap_mdl, cap_ovr)))
            /\ allowed >= 0
            /\ allowed <= base /\ allowed <= cap_mdl /\ allowed <= cap_ovr

\* C16's case: an OPEN handled with 200 left of the daily budget was allowed
\* 0.20 x 200 = 40, the smallest of the three terms
C16_Witness ==
    \E i \in DOMAIN log :
        /\ log[i].rem_daily = 20000
        /\ log[i].allowed = 4000
        /\ log[i].eq = get_equity
        /\ day_state # NoDay
        /\ compute_allowed_risk_usd(day_state) = 4000

\* ------------------------------------------------------------------ claims on multiplier and sizing

\* whether prepare_copy_trade got as far as sizing the handled OPEN o
Sized(o) == o.mult > 0 /\ o.sl_points > 0

\* C17: the risk figure prepare_copy_trade sizes with, the allowed risk times
\* the regime multiplier, is at most the unmultiplied allowed risk
C17_MultiplierOnlyScalesDown ==
    \A i \in DOMAIN Handled :
        Sized(Handled[i]) =>
            Handled[i].allowed * Handled[i].mult <= Handled[i].allowed * 10

\* C18: _adapt_multiplier is within [0.1, 2.0]; a configured value outside the
\* range comes out as the nearer bound, one inside it unchanged; outside ADAPT
\* mode the result is 1.0; and every OPEN was sized with such a multiplier
C18_MultiplierClamped ==
    /\ _adapt_multiplier >= 1 /\ _adapt_multiplier <= 20
    /\ ALNAFIE_MODE # "ADAPT" => _adapt_multiplier = 10
    /\ (/\ ALNAFIE_MODE = "ADAPT"
        /\ cfg.ADAPT_RISK_MULT_ASIAN = <<>>
        /\ cfg.ADAPT_RISK_MULT_NFP = <<>>)
          => LET base == cfg.ADAPT_RISK_MULT_DEFAULT
             IN  _adapt_multiplier = IF base > 20 THEN 20
                                     ELSE IF base < 1 THEN 1 ELSE base
    /\ \A i \in DOMAIN Handled :
          Sized(Handled[i]) => Handled[i].mult >= 1 /\ Handled[i].mult <= 20

\* C18's case: in ADAPT mode with the multiplier configured as 2.5 an OPEN was
\* sized with 2.0
C18_Witness ==
    /\ ALNAFIE_MODE = "ADAPT"
    /\ cfg.ADAPT_RISK_MULT_DEFAULT = 25
    /\ \E i \in DOMAIN log : Sized(log[i]) /\ log[i].mult = 20

\* C19: when the risk divided by (stop distance x value per point), floored to
\* LOT_STEP, is below MIN_LOT, prepare_copy_trade returns no order
C19_BelowMinLotFails ==
    /\ \A i \in DOMAIN Handled :
          LET o == Handled[i]
              floored == ((o.allowed * o.mult)
                             \div (10 * o.sl_points * value_per_point * LOT_STEP))
                         * LOT_STEP
          IN  (Sized(o) /\ floored < MIN_LOT) => ~Returned(o)
    /\ LET floored == ((ev.allowed * ev.mult)
                          \div (10 * ev.sl_points * value_per_point * LOT_STEP))
                      * LOT_STEP
       IN  (ev.pc = "shrink" /\ Sized(ev)) => floored >= MIN_LOT

marginQuantity ==
    LET keep  == (MARGIN_FREE_BUFFER_PCT * acct.equity) \div 100
        avail == acct.margin_free - keep
    IN  ((avail * 100) \div (info.margin_per_lot * LOT_STEP)) * LOT_STEP

\* C21: the quantity of every order request prepare_copy_trade returns is
\* min(riskQuantity, marginQuantity), riskQuantity being the lots that passed
\* the open-risk cap; so it never exceeds marginQuantity, also with free-margin
\* headroom zero or negative
C21_QuantityIsMinOfRiskAndMargin ==
    \A i \in DOMAIN Handled :
        Returned(Handled[i]) =>
            /\ Handled[i].lots = Min(Handled[i].cap_lots, marginQuantity)
            /\ Handled[i].lots <= marginQuantity

\* C22: the stop of every order request prepare_copy_trade returns lies on the
\* loss side of the live price, at least stops level + freeze level + cushion
\* (5 points) away from it
C22_StopClearOfLivePrice ==
    \A i \in DOMAIN Handled :
        LET o    == Handled[i]
            need == info.trade_stops_level + info.freeze_level + 5
        IN  Returned(o) =>
                IF o.order_type = "BUY" THEN o.sl_price <= o.price - need
                ELSE o.sl_price >= o.price + need

\* C23: for every order request prepare_copy_trade returns, the distance from
\* the reference entry to the final stop is at most the sl_points the order was
\* sized with
C23_ClampNeverWidens ==
    \A i \in DOMAIN Handled :
        Returned(Handled[i]) =>
            Abs(Handled[i].m.entry - Handled[i].sl_price) <= Handled[i].sl_points

\* C24: an OPEN without a reference stop, handled with no ATR and a broker
\* stops level of 0, gets no order request; and every order request is sized
\* with a positive stop distance and has its stop off the reference entry
C24_ZeroDistanceMeansNoOrder ==
    \A i \in DOMAIN Handled :
        LET o == Handled[i]
        IN  /\ (/\ o.m.sl = 0
                /\ get_atr_points = 0
                /\ info.trade_stops_level = 0) => ~Returned(o)
            /\ Returned(o) => (o.sl_points > 0 /\ o.sl_price # o.m.entry)

\* C24's case: an OPEN without a reference stop got as far as sizing with no
\* ATR and stops level 0, and prepare_copy_trade returned None
C24_Witness ==
    \E i \in DOMAIN log :
        /\ log[i].m.sl = 0
        /\ get_atr_points = 0
        /\ info.trade_stops_level = 0
        /\ log[i].mult > 0
        /\ log[i].sl_points = 0
        /\ log[i].pc = "none"

\* C25: in REVERSE mode every order request has the direction opposite to the
\* master's, a SELL has its stop above and its non-zero target below the
\* entry, a BUY its stop below and its non-zero target above
C25_ReverseStopAndTargetInverted ==
    \A i \in DOMAIN Handled :
        LET o == Handled[i]
        IN  (Returned(o) /\ ALNAFIE_MODE = "REVERSE") =>
                /\ o.order_type = (IF o.m.type = "buy" THEN "SELL" ELSE "BUY")
                /\ o.order_type = "SELL" =>
                      (o.sl_price > o.m.entry /\ (o.tp_price # 0 => o.tp_price < o.m.entry))
                /\ o.order_type = "BUY" =>
                      (o.sl_price < o.m.entry /\ (o.tp_price # 0 => o.tp_price > o.m.entry))

\* ------------------------------------------------------------------ claims on events and venue failures

\* C26: an OPEN whose master ticket is already linked in MASTER2FOLLOW when it
\* is taken is a no-op: no order request comes of it
C26_DuplicateOpenIsNoOp ==
    \A i \in DOMAIN Handled : Handled[i].linked # 0 => ~Returned(Handled[i])

\* the step is on_open's send_order answered with a rejection
OpenRejected == ev.pc = "send" /\ ev'.pc = "idle" /\ positions' = positions

\* the step is on_close's closing deal for a linked open position answered with
\* a rejection
CloseRejected ==
    /\ ev.pc = "idle"
    /\ inbox # <<>>
    /\ Head(inbox).event = "CLOSE"
    /\ inbox' = Tail(inbox)
    /\ venue.tick
    /\ \E i \in DOMAIN positions :
          positions[i].ticket = MASTER2FOLLOW[Head(inbox).ticket]
    /\ positions' = positions

\* C27: when the venue rejects the order of on_open or of on_close,
\* MASTER2FOLLOW is the same after the handler as before it
C27_RejectionKeepsMapping ==
    [][(OpenRejected \/ CloseRejected) => MASTER2FOLLOW' = MASTER2FOLLOW]_vars

\* C28: whatever venue call fails during a tick or a proposal, tcp_server and
\* manager_loop both keep running
C28_BothLoopsKeepRunning == alive["t1"] /\ alive["t2"]

\* C29: in a management tick in which the venue rejects stop changes, no
\* position that took the breakeven branch is partially closed
C29_NoPartialAfterRejectedStop ==
    [][(ticked' /\ ~venue.sltp) =>
          \A i \in DOMAIN positions :
              (is_managed(positions[i]) /\ be_branch(positions[i])) =>
                  positions'[i].volume = positions[i].volume]_vars

\* C30: a step that changes the stop or the target of a position that stays
\* open is a management tick
C30_OnlyManagerWritesStops ==
    [][(\E i \in DOMAIN positions : \E j \in DOMAIN positions' :
            /\ positions'[j].ticket = positions[i].ticket
            /\ \/ positions'[j].sl # positions[i].sl
               \/ positions'[j].tp # positions[i].tp)
          => ticked']_vars

\* ------------------------------------------------------------------ claims on bars, open risk and foreign positions

\* C31: with fewer than ATR_PERIOD + 1 bars get_atr_points is 0, trail_atr
\* sends no stop modification, and a management tick leaves the stop of every
\* position that does not take the breakeven branch as it is
C31_NoTrailWithoutBars ==
    [][mkt.bars < ATR_PERIOD + 1 =>
          /\ get_atr_points = 0
          /\ \A i \in DOMAIN positions : ~trail_atr(positions[i]).sent
          /\ ticked' =>
                \A i \in DOMAIN positions :
                    ~be_branch(positions[i]) => positions'[i].sl = positions[i].sl]_vars

\* C31's case: a management tick ran on a position with a stop while the venue
\* held 14 bars with a mean true range of 3 points
C31_Witness ==
    /\ ticked
    /\ mkt.bars = ATR_PERIOD
    /\ mkt.atr_pts > 0
    /\ \E i \in DOMAIN positions :
          /\ positions[i].sl # 0
          /\ hist[positions[i].ticket].seen

\* ------------------------------------------------------------------ claims on the replacement program

\* the replacement orders (not the closing deals) sent by the step
NewReplacements ==
    {k \in (Len(rms.sent) + 1)..Len(rms'.sent) :
        rms'.sent[k].comment = <<COMMENT_PREFIX, "inv=YES">>}

\* C32: with CAP_TO_DAILY on, every replacement order risks (lots x money per
\* lot at the stop it is sent with) at most equity x min(RISK_PCT, remaining
\* daily budget percent), and with no budget left it carries no volume.
\* Both sides are x 100, percentages being carried as percent x equity.
C32_ReplacementRiskWithinBudget ==
    [][CAP_TO_DAILY =>
          \A k \in NewReplacements :
              LET r == rms'.sent[k]
              IN  /\ r.volume * Abs(r.price - r.sl) * info.trade_tick_value * 100
                        <= Min(RISK_PCT * acct.equity, remaining_daily_risk_pct_equity)
                  /\ remaining_daily_risk_pct_equity = 0 => r.volume = 0]_vars

\* C37: each ticket is the subject of at most one replacement attempt, and
\* no position carrying the program's MAGIC or a comment that starts with
\* COMMENT_PREFIX is ever the subject of one; so the positions the program's
\* own orders opened are never replaced.
C37_OneAttemptAndNeverItsOwn ==
    /\ \A j, k \in DOMAIN rms.attempts : rms.attempts[j] = rms.attempts[k] => j = k
    /\ \A k \in DOMAIN rms.attempts, i \in DOMAIN positions :
          positions[i].ticket = rms.attempts[k] =>
              /\ positions[i].magic # MAGIC
              /\ ~startswith(positions[i].comment, COMMENT_PREFIX)

\* two manual positions were replaced, the replacement and the closing deal
\* of the second one are open, and nothing is left to replace
C37_Witness ==
    /\ Len(rms.attempts) = 2
    /\ \E i, j \in DOMAIN positions :
          /\ positions[i].comment = <<COMMENT_PREFIX, "inv=YES">>
          /\ positions[j].comment = <<COMMENT_PREFIX, "close_orig">>
          /\ positions[i].magic = MAGIC /\ positions[j].magic = MAGIC
          /\ positions[i].ticket > rms.attempts[2]
          /\ positions[j].ticket > rms.attempts[2]
    /\ ~control_pause_active
    /\ \A i \in DOMAIN positions : ~replaceable(positions[i])

\* ------------------------------------------------------------------ claims on the mirror bot

\* C33: while _HARD_STOP_ON is set, the mirror bot sends no order that opens
\* or increases a mirror position (closes only), whatever HALT_ON_BREACH,
\* REPLACE_MASTER and MIRROR_RISK_PER_TRADE are.
C33_NoOpenWhileHardStopped ==
    \A k \in DOMAIN mirror.sent :
        mirror.sent[k].hard => mirror.sent[k].kind # "open"

\* C34: in replace mode the two steps of handle_new_manual are ordered and
\* conditional.  The second request (the close of the master with
\* MIRROR_THEN_CLOSE, the opening of the mirror with CLOSE_THEN_MIRROR) is
\* sent only after the first one succeeded, and a failed first step leaves
\* the positions of the account as they were.
C34_ReplaceOrderedAndConditional ==
    [][(REPLACE_MASTER /\ mirror'.seen # mirror.seen) =>
          LET s == mirror'.sent
              first == IF REPLACE_SEQUENCE = "MIRROR_THEN_CLOSE" THEN "open" ELSE "close"
          IN  /\ \A k \in DOMAIN s :
                    s[k].kind # first => k = 2 /\ s[1].kind = first /\ s[1].ok
              /\ Len(s) <= 2
              /\ (s # <<>> /\ ~s[1].ok) => Len(s) = 1 /\ positions' = positions]_vars

\* a replacement in the order close, then mirror: both requests were accepted,
\* the master is gone and its mirror is open
C34_Witness ==
    /\ REPLACE_MASTER /\ REPLACE_SEQUENCE = "CLOSE_THEN_MIRROR"
    /\ Len(mirror.sent) = 2
    /\ mirror.sent[1].kind = "close" /\ mirror.sent[1].ok
    /\ mirror.sent[2].kind = "open" /\ mirror.sent[2].ok
    /\ mirror.sent[1].ticket \in mirror.seen
    /\ mirror.sent[1].ticket \in mirrors \ masters

\* ------------------------------------------------------------------ claims on the link table

\* C36: MASTER2FOLLOW is injective: two different master tickets are never
\* linked to the same follower position ticket.
C36_LinksInjective ==
    \A a, b \in MasterTickets :
        (a # b /\ MASTER2FOLLOW[a] # 0) => MASTER2FOLLOW[a] # MASTER2FOLLOW[b]

\* ------------------------------------------------------------------ claims on the open-risk sum

\* C38: every open position with non-zero volume adds a strictly positive
\* term to sum_open_risk_usd, a position without stop included.
C38_EveryPositionCountsRisk ==
    \A i \in DOMAIN positions :
        positions[i].volume # 0 => open_risk_of(positions[i]) > 0

\* ------------------------------------------------------------------ claims on the management gate

\* a position that does not carry exactly the engine's tag
foreign(pos) == pos.comment # <<"B_COPY_RISK">>

\* C39: a management tick sends no stop modification and no partial close for
\* a position whose comment is not B_COPY_RISK, and leaves its stop, target
\* and volume as they are.
C39_TickLeavesForeignAlone ==
    [][ManagerTick =>
          \A i \in DOMAIN positions :
              foreign(positions[i]) =>
                  LET t == positions[i].ticket
                  IN  /\ positions'[i] = positions[i]
                      /\ hist'[t].stops = hist[t].stops
                      /\ hist'[t].partials = hist[t].partials]_vars

\* a tick has run over a foreign position that the loop would have trailed,
\* had it carried the tag
C39_Witness ==
    /\ ticked
    /\ \E i \in DOMAIN positions :
          /\ foreign(positions[i])
          /\ positions[i].volume > 0
          /\ trail_atr(positions[i]).sent \/ be_branch(positions[i])
          /\ hist[positions[i].ticket].seen
          /\ ~hist[positions[i].ticket].evaluated

\* ------------------------------------------------------------------ claims on the simulation engine

\* C40: with the percent daily cap disabled (DAILY_LOSS_PCT = 0) the
\* simulation's compute_allowed_risk_usd, given the live equity and day state,
\* returns what the live compute_allowed_risk_usd returns.
C40_SimAllowedRiskEqualsLive ==
    (day_state # NoDay /\ DAILY_LOSS_PCT = 0) =>
        sim_compute_allowed_risk_usd(get_equity, day_state)
            = compute_allowed_risk_usd(day_state)

\* no percent cap, a day that started at 9700 with equity 9500 now: base 80
\* is not the binding term and the allowed risk is positive
C40_Witness ==
    /\ day_state # NoDay
    /\ DAILY_LOSS_PCT = 0
    /\ day_state.start_equity = 970000
    /\ get_equity = 950000
    /\ compute_allowed_risk_usd(day_state) > 0
    /\ compute_allowed_risk_usd(day_state) < (BASE_RISK_PCT * INITIAL_BALANCE) \div 1000

\* ------------------------------------------------------------------ claims on the trade copier

\* C35: for a master ticket, at most one slave position is ever opened
\* (master tickets are not issued twice), also when a filled order's position
\* could not be found afterwards.
C35_AtMostOneSlavePerMaster ==
    \A j, k \in DOMAIN copier.opened : copier.opened[j] = copier.opened[k] => j = k

\* ------------------------------------------------------------------ claims on the lifecycle manager

\* C5: the stops the lifecycle manager applies to a position, in the order it
\* applies them, never loosen: each is >= the one before for a BUY, <= for a SELL
C5_StopsNeverLoosen ==
    \A i \in DOMAIN positions :
        LET h == hist[positions[i].ticket].stops
        IN  \A k \in 1..(Len(h) - 1) :
                IF positions[i].type = "BUY" THEN h[k + 1] >= h[k]
                ELSE h[k + 1] <= h[k]

\* C6: over any sequence of management ticks a position is partially closed
\* at most once
C6_AtMostOnePartial == \A t \in DOMAIN hist : hist[t].partials <= 1

\* C7: a management tick that directly follows another one, on the same
\* quotes, bars and account data, changes no position's stop
C7_SecondRunChangesNoStop == \A t \in DOMAIN hist : ~hist[t].rerun_moved

\* C8: every partial close closes at most half of the volume the position has
\* at that moment, and never all of it
C8_PartialAtMostHalf ==
    \A t \in DOMAIN hist :
        LET before == hist[t].last_partial[1]
            closed == hist[t].last_partial[2]
        IN  closed > 0 => (2 * closed <= before /\ closed < before)

\* C9: a management tick that finds a managed position with a stop, a
\* reward-to-risk ratio >= 1.0 and no breakeven move so far sends the
\* breakeven move for it, whatever its volume
C9_ArmedWhenRewardReachesRisk ==
    [][\A i \in DOMAIN positions :
          LET pos == positions[i]
              rr  == rr_for_position(pos)
          IN  (/\ ticked'
               /\ is_managed(pos)
               /\ pos.sl # 0
               /\ rr[1] >= rr[2]
               /\ ~hist[pos.ticket].armed)
                  => hist'[pos.ticket].armed]_vars

====
